---- MODULE Spec2Model ----
(***************************************************************************)
(* TreeVector: segmented sequences over a Fenwick tree of segment counts,  *)
(* persisted in copy-on-write chunks (FenwickBase, FenwickList,            *)
(* FenwickOrderedList) and the Table that commits a meta snapshot after    *)
(* its columns have flushed.                                               *)
(*                                                                         *)
(* A sequence object is a record:                                          *)
(*   kind          "list" (FenwickList) or "ordered" (FenwickOrderedList)  *)
(*   segmentCount  meta.segmentCount (S)                                   *)
(*   chunkCount    meta.chunkCount (C)                                     *)
(*   segments      meta.segments, a sequence of segment descriptors        *)
(*                 [ref, count] (ordered: [ref, count, min, max]); ref is  *)
(*                 the identity of the JavaScript object                   *)
(*   chunks        meta.chunks, chunk index -> key (NoKey for a hole)      *)
(*   fenwick       the Fenwick array                                       *)
(*   totalCount                                                            *)
(*   dirty         the set of refs of dirty segments                       *)
(*   chunkCache    chunk index -> chunk (a sequence of C arrays)           *)
(*   segmentArrays ref -> working array                                    *)
(*   nextRef       the next unused object identity                         *)
(* Segment and chunk indexes are 0-based as in the source; TLA+ sequences  *)
(* are 1-based, so segments[i] of the source is l.segments[i + 1].         *)
(***************************************************************************)
EXTENDS FiniteSets, Integers, Sequences, TLC

(* ---- bounds of the model ---- *)
MaxSegmentCount == 2
MaxChunkCount == 2
MaxInserts == 4
MaxOrderedInserts == 4
MaxValue == 3
MaxFlushes == 2
MaxPersistInserts == 4
MaxTableRows == 2
MaxTableFlushes == 2
MaxBatch == 2
MaxBulkInserts == 4
MaxRows == 3
MaxRowBatch == 2
MaxLoadInserts == 4
MaxSliceRows == 3
MaxOffset == 2
MaxLimit == 2
MaxSplitInserts == 4
MaxSingleInserts == 4
MaxCacheInserts == 3
MaxCacheFlushes == 2
MaxRetryInserts == 3
MaxRetryFlushes == 3
MaxMetaInserts == 3
MaxMetaFlushes == 2
MaxShareInserts == 3
MaxShareFlushes == 2
MaxPeerInserts == 2
MaxColdInserts == 3
MaxColdFlushes == 2
MaxManyBatch == 2
MaxPartialInserts == 2

VARIABLES list, ref, olist, inserted, out, store, clock, lastFlush, tracing,
          table, metaStore, tflush, given

listVars == <<list, ref>>
orderedVars == <<olist, inserted>>
storeVars == <<store, clock, lastFlush, tracing>>
tableVars == <<table, metaStore, tflush, given>>

vars == <<list, ref, olist, inserted, out, store, clock, lastFlush, tracing,
          table, metaStore, tflush, given>>

\* the element of a singleton. {F(x) : x \in {e}} gives the value of e the name x,
\* the way a const declaration does, so that e is evaluated once
TheOne(S) == CHOOSE x \in S : TRUE

(* ---- JavaScript helpers ---- *)
Min2(a, b) == IF a < b THEN a ELSE b
Max2(a, b) == IF a > b THEN a ELSE b

\* arr.slice(from, to) with 0-based half-open bounds
Slice(arr, from, to) == SubSeq(arr, from + 1, Min2(to, Len(arr)))

\* arr.splice(start, 0, v): the array after the insertion
SpliceInsert(arr, start, v) ==
  LET s == IF start < 0 THEN Max2(Len(arr) + start, 0) ELSE Min2(start, Len(arr))
  IN  Slice(arr, 0, s) \o <<v>> \o Slice(arr, s, Len(arr))

\* x & -x for x > 0
RECURSIVE LowBit(_)
LowBit(x) == IF x % 2 = 1 THEN 1 ELSE 2 * LowBit(x \div 2)

\* the value `undefined` (values proper are positive integers), and the absent
\* chunk key (meta.chunks[c] === undefined)
Undefined == 0
NoKey == <<>>

(* ---- FenwickBase ---- *)

\* buildFenwick: counts, then "add to the next" in index order
RECURSIVE BuildFenwickLoop(_, _)
BuildFenwickLoop(f, i) ==
  IF i >= Len(f) THEN f
  ELSE LET j == i + LowBit(i + 1)
       IN  BuildFenwickLoop(IF j <= Len(f) - 1
                              THEN [f EXCEPT ![j + 1] = @ + f[i + 1]]
                              ELSE f,
                            i + 1)

buildFenwick(segments) ==
  BuildFenwickLoop([i \in 1..Len(segments) |-> segments[i].count], 0)

RECURSIVE PrefixSumLoop(_, _, _)
PrefixSumLoop(f, i, sum) ==
  IF i > 0 THEN PrefixSumLoop(f, i - LowBit(i), sum + f[i]) ELSE sum

prefixSum(l, endExclusive) ==
  IF endExclusive <= 0 \/ Len(l.fenwick) = 0 THEN 0
  ELSE PrefixSumLoop(l.fenwick, endExclusive, 0)

RECURSIVE AddFenwickLoop(_, _, _)
AddFenwickLoop(f, i, delta) ==
  IF i <= Len(f)
    THEN AddFenwickLoop([f EXCEPT ![i] = @ + delta], i + LowBit(i), delta)
    ELSE f

addFenwick(f, index, delta) ==
  IF index < 0 \/ Len(f) = 0 THEN f ELSE AddFenwickLoop(f, index + 1, delta)

RECURSIVE TopBit(_, _)
TopBit(bit, n) == IF 2 * bit <= n THEN TopBit(2 * bit, n) ELSE bit

\* mutant: the descent includes a bin only while the sum stays below the index
DescendTakes_Strict(sum, fv, index) == sum + fv < index

\* the comparison of the descent: include the bin while the sum stays <= index
DescendTakes(sum, fv, index) == sum + fv <= index

RECURSIVE Descend(_, _, _, _, _)
Descend(f, index, step, idx, sum) ==
  IF step <= 0 THEN [idx |-> idx, sum |-> sum]
  ELSE LET next == idx + step
           fv == IF next <= Len(f) THEN f[next] ELSE 0
       IN  IF next <= Len(f) /\ DescendTakes(sum, fv, index)
             THEN Descend(f, index, step \div 2, next, sum + fv)
             ELSE Descend(f, index, step \div 2, idx, sum)

findByIndex(l, index) ==
  LET d == Descend(l.fenwick, index, TopBit(1, Len(l.fenwick)), 0, 0)
  IN  [segIndex |-> Min2(d.idx, Len(l.segments) - 1),
       localIndex |-> index - d.sum]

effectiveChunkSize(l) == IF l.chunkCount > 0 THEN l.chunkCount ELSE 1

\* getSegmentIndex: segmentIndexByRef is rebuilt with every change of the
\* segment list and falls back to indexOf, so it is the position of the ref
getSegmentIndex(l, r) ==
  IF \E i \in 1..Len(l.segments) : l.segments[i].ref = r
    THEN (CHOOSE i \in 1..Len(l.segments) : l.segments[i].ref = r) - 1
    ELSE -1

\* the segment descriptor with identity r updated by field
SetCount(l, r, n) ==
  [l EXCEPT !.segments = [i \in 1..Len(l.segments) |->
     IF l.segments[i].ref = r THEN [l.segments[i] EXCEPT !.count = n]
     ELSE l.segments[i]]]

\* getOrCreateArraySync(seg, true, preset)
getOrCreateArraySync(l, r, preset) ==
  IF r \in DOMAIN l.segmentArrays THEN l
  ELSE [l EXCEPT !.segmentArrays = (r :> preset) @@ @]

\* getOrLoadChunk: the chunk is taken from the cache, else read from the store
\* under meta.chunks[chunkIndex] (absent key or blob: empty), padded to C slots
PadChunk(chunk, chunkSize) ==
  IF Len(chunk) < chunkSize
    THEN [i \in 1..chunkSize |-> IF i <= Len(chunk) THEN chunk[i] ELSE <<>>]
    ELSE chunk

getOrLoadChunk(l, st, chunkIndex) ==
  IF chunkIndex \in DOMAIN l.chunkCache THEN l
  ELSE LET key == IF chunkIndex + 1 <= Len(l.chunks)
                    THEN l.chunks[chunkIndex + 1] ELSE NoKey
           blob == IF key # NoKey /\ key \in DOMAIN st THEN st[key] ELSE <<>>
       IN  [l EXCEPT !.chunkCache =
              (chunkIndex :> PadChunk(blob, effectiveChunkSize(l))) @@ @]

\* chunk[pos] ?? []
ChunkSlot(chunk, pos) == IF pos + 1 <= Len(chunk) THEN chunk[pos + 1] ELSE <<>>

\* getOrCreateArrayForSegment(segment, true): a working copy of the slot
getOrCreateArrayForSegment(l, st, r) ==
  IF r \in DOMAIN l.segmentArrays THEN l
  ELSE LET idx == getSegmentIndex(l, r)
           cidx == idx \div effectiveChunkSize(l)
           pos == idx % effectiveChunkSize(l)
       IN  TheOne({[l1 EXCEPT !.segmentArrays =
                      (r :> ChunkSlot(l1.chunkCache[cidx], pos)) @@ @] :
                    l1 \in {getOrLoadChunk(l, st, cidx)}})

baseEnsureSegmentLoaded(l, st, r) ==
  IF getSegmentIndex(l, r) < 0 THEN l
  ELSE TheOne({SetCount(l1, r, Len(l1.segmentArrays[r])) :
                 l1 \in {getOrCreateArrayForSegment(l, st, r)}})

\* FenwickOrderedList.ensureSegmentLoaded: also refreshes min and max
orderedEnsureSegmentLoaded(l, st, r) ==
  TheOne({LET arr == l2.segmentArrays[r]
          IN  IF Len(arr) > 0
                THEN [l2 EXCEPT !.segments = [i \in 1..Len(l2.segments) |->
                       IF l2.segments[i].ref = r
                         THEN [l2.segments[i] EXCEPT !.min = arr[1], !.max = arr[Len(arr)]]
                         ELSE l2.segments[i]]]
                ELSE l2 :
           l2 \in {getOrCreateArraySync(baseEnsureSegmentLoaded(l, st, r), r, <<>>)}})

ensureSegmentLoaded(l, st, r) ==
  IF l.kind = "ordered" THEN orderedEnsureSegmentLoaded(l, st, r)
  ELSE baseEnsureSegmentLoaded(l, st, r)

\* the segment descriptor created for a new segment of the given content
NewSegment(l, r, arr) ==
  IF l.kind = "ordered"
    THEN [ref |-> r, count |-> Len(arr), min |-> arr[1], max |-> arr[Len(arr)]]
    ELSE [ref |-> r, count |-> Len(arr)]

\* mutant: a segment is split one element late
OverCapacity_Late(count, segmentCount) == count > segmentCount + 1

\* the test before a split: seg.count > this.meta.segmentCount
OverCapacity(count, segmentCount) == count > segmentCount

\* where splitSegment cuts: arr.length >>> 1
SplitPoint(n) == n \div 2

\* splitSegment(index), FenwickBase and the FenwickOrderedList override: the
\* working array is cut by arr.splice(mid) before the empty-half test
splitSegment(l, index) ==
  LET seg == l.segments[index + 1]
  IN  TheOne({
        LET mid == SplitPoint(Len(arr))
            left == Slice(arr, 0, mid)
            right == Slice(arr, mid, Len(arr))
            newRef == l.nextRef
            leftSeg == IF l.kind = "ordered"
                         THEN [seg EXCEPT !.count = Len(left), !.min = left[1],
                                          !.max = left[Len(left)]]
                         ELSE [seg EXCEPT !.count = Len(left)]
        IN  IF Len(left) = 0 \/ Len(right) = 0
              THEN [l EXCEPT !.segmentArrays = (seg.ref :> left) @@ @]
              ELSE TheOne({[l EXCEPT !.segments = segs,
                                     !.segmentArrays =
                                        (newRef :> right) @@ (seg.ref :> left) @@ @,
                                     !.nextRef = @ + 1,
                                     !.fenwick = buildFenwick(segs),
                                     !.dirty = @ \cup {seg.ref, newRef}] :
                            segs \in {Slice(l.segments, 0, index) \o
                                      <<leftSeg, NewSegment(l, newRef, right)>> \o
                                      Slice(l.segments, index + 1, Len(l.segments))}}) :
        arr \in {getOrCreateArraySync(l, seg.ref, <<>>).segmentArrays[seg.ref]}})

\* createInitialSegment(segment, initialValue)
createInitialSegment(l, value) ==
  LET r == l.nextRef
      segs == l.segments \o <<NewSegment(l, r, <<value>>)>>
  IN  [l EXCEPT !.segmentArrays = (r :> <<value>>) @@ @,
                !.nextRef = @ + 1,
                !.segments = segs,
                !.fenwick = buildFenwick(segs),
                !.totalCount = 1,
                !.dirty = @ \cup {r}]

\* setMeta on a new object: the derived state of a constructed sequence
NewSequence(kind, segmentCount, chunkCount, segments, chunks) ==
  [kind |-> kind, segmentCount |-> segmentCount, chunkCount |-> chunkCount,
   segments |-> segments, chunks |-> chunks,
   fenwick |-> buildFenwick(segments),
   totalCount |-> LET RECURSIVE Sum(_)
                      Sum(i) == IF i = 0 THEN 0 ELSE segments[i].count + Sum(i - 1)
                  IN  Sum(Len(segments)),
   dirty |-> {}, chunkCache |-> <<>>, segmentArrays |-> <<>>,
   nextRef |-> Len(segments)]

\* get(index): the value, or Undefined out of range
get(l, st, index) ==
  IF index < 0 \/ index >= l.totalCount THEN [l |-> l, value |-> Undefined]
  ELSE LET f == findByIndex(l, index)
           seg == l.segments[f.segIndex + 1]
       IN  TheOne({LET arr == l1.segmentArrays[seg.ref]
                   IN  [l |-> l1,
                        value |-> IF f.localIndex + 1 <= Len(arr) THEN arr[f.localIndex + 1]
                                  ELSE Undefined] :
                    l1 \in {getOrCreateArraySync(ensureSegmentLoaded(l, st, seg.ref),
                                                 seg.ref, <<>>)}})

\* the upper end of range after clamping: b > totalCount ? totalCount : b
ClampEnd(b, totalCount) == IF b > totalCount THEN totalCount ELSE b

\* the pre-load of range: ensureSegmentLoaded for segments segIndex..endSegIndex
RECURSIVE LoadSegments(_, _, _, _)
LoadSegments(l, st, from, to) ==
  IF from > to \/ from + 1 > Len(l.segments) THEN l
  ELSE TheOne({LoadSegments(l1, st, from + 1, to) :
                 l1 \in {ensureSegmentLoaded(l, st, l.segments[from + 1].ref)}})

\* the collecting loop of range
RECURSIVE RangeLoop(_, _, _, _, _)
RangeLoop(l, segIndex, localIndex, remaining, acc) ==
  IF ~(remaining > 0 /\ segIndex < Len(l.segments)) THEN [l |-> l, value |-> acc]
  ELSE LET r == l.segments[segIndex + 1].ref
       IN  TheOne({
             LET arr == l1.segmentArrays[r]
                 take == Min2(remaining, Max2(0, Len(arr) - localIndex))
             IN  RangeLoop(l1, segIndex + 1, 0, remaining - take,
                           IF take > 0
                             THEN acc \o Slice(arr, localIndex, localIndex + take)
                             ELSE acc) :
             l1 \in {getOrCreateArraySync(l, r, <<>>)}})

\* mutant: the upper bound is taken as inclusive
range_Inclusive(l, st, minIndex, maxIndex) ==
  LET a == Max2(0, minIndex)
      b == ClampEnd(maxIndex + 1, l.totalCount)
  IN  IF l.totalCount = 0 \/ maxIndex + 1 <= a \/ a >= l.totalCount
        THEN [l |-> l, value |-> <<>>]
        ELSE LET f == findByIndex(l, a)
                 e == findByIndex(l, b - 1)
             IN  TheOne({RangeLoop(l1, f.segIndex, f.localIndex, b - a, <<>>) :
                          l1 \in {LoadSegments(l, st, f.segIndex, e.segIndex)}})

\* range(minIndex, maxIndex)
range(l, st, minIndex, maxIndex) ==
  LET a == Max2(0, minIndex)
      b == ClampEnd(maxIndex, l.totalCount)
  IN  IF l.totalCount = 0 \/ maxIndex <= a \/ a >= l.totalCount
        THEN [l |-> l, value |-> <<>>]
        ELSE LET f == findByIndex(l, a)
                 e == findByIndex(l, b - 1)
             IN  TheOne({RangeLoop(l1, f.segIndex, f.localIndex, b - a, <<>>) :
                          l1 \in {LoadSegments(l, st, f.segIndex, e.segIndex)}})

\* generateChunkKey(chunkIndex): the chunk index with a suffix of time and random
\* digits; the suffix is modelled by the stamp of a clock that every generated
\* key advances, so that no two generated keys are equal
generateChunkKey(chunkIndex, stamp) == <<chunkIndex, stamp>>

\* meta.chunks[cidx] = newKey: a JavaScript array grows with holes
SetChunkKey(chunks, cidx, key) ==
  [i \in 1..Max2(Len(chunks), cidx + 1) |->
     IF i = cidx + 1 THEN key
     ELSE IF i <= Len(chunks) THEN chunks[i] ELSE NoKey]

\* the chunk indexes of the dirty segments (changedByChunk)
ChangedChunks(l) ==
  {getSegmentIndex(l, r) \div effectiveChunkSize(l) :
     r \in {d \in l.dirty : getSegmentIndex(l, d) >= 0}}

\* mutant: the new chunk starts empty instead of from the committed chunk
FlushKeeps_Nothing(chunk, pos) == <<>>

\* the slot a flush keeps for a segment that is not dirty: chunk[i] ?? []
FlushKeeps(chunk, pos) == ChunkSlot(chunk, pos)

\* the new chunk of a flush: the loaded chunk with the dirty slots overridden by
\* copies of the working arrays
NewChunk(l, cidx) ==
  LET size == effectiveChunkSize(l)
      chunk == l.chunkCache[cidx]
  IN  [i \in 1..size |->
         LET idx == cidx * size + (i - 1)
         IN  IF idx < Len(l.segments) /\ l.segments[idx + 1].ref \in l.dirty
               THEN LET r == l.segments[idx + 1].ref
                    IN  IF r \in DOMAIN l.segmentArrays THEN l.segmentArrays[r] ELSE <<>>
               ELSE FlushKeeps(chunk, i - 1)]

\* one task of flush (the async callback for one changed chunk). A rejected
\* store.set leaves the key table and the cache as the load left them
RECURSIVE FlushChunks(_, _, _, _, _)
FlushChunks(l, st, clk, todo, failing) ==
  IF todo = {} THEN [l |-> l, store |-> st, clock |-> clk]
  ELSE LET cidx == CHOOSE c \in todo : \A d \in todo : c <= d
           newKey == generateChunkKey(cidx, clk)
       IN  TheOne({
             IF cidx \in failing
               THEN FlushChunks(l1, st, clk + 1, todo \ {cidx}, failing)
               ELSE TheOne({
                      FlushChunks([l1 EXCEPT !.chunks = SetChunkKey(@, cidx, newKey),
                                             !.chunkCache[cidx] = newChunk],
                                  (newKey :> newChunk) @@ st, clk + 1,
                                  todo \ {cidx}, failing) :
                      newChunk \in {NewChunk(l1, cidx)}}) :
             l1 \in {getOrLoadChunk(l, st, cidx)}})

\* mutant: flush leaves the dirty set as it was
DirtyAfterFlush_Kept(dirty) == dirty

\* this.dirty.clear() at the end of a flush whose tasks all resolved
DirtyAfterFlush(dirty) == {}

\* flush(): keys is the set of written keys (the returned list, whose order is
\* the order in which the tasks completed); failing is the set of chunk indexes whose store.set rejects; ok tells
\* whether flush resolved. The dirty set is cleared only when every task resolved
flush(l, st, clk, failing) ==
  IF l.dirty = {}
    THEN [l |-> l, store |-> st, clock |-> clk, ok |-> TRUE, keys |-> {}]
  ELSE LET ok == ChangedChunks(l) \cap failing = {}
       IN  TheOne({[l |-> IF ok THEN [f.l EXCEPT !.dirty = DirtyAfterFlush(@)] ELSE f.l,
                    store |-> f.store, clock |-> f.clock, ok |-> ok,
                    keys |-> DOMAIN f.store \ DOMAIN st] :
                    f \in {FlushChunks(l, st, clk, ChangedChunks(l), failing)}})

\* a sequence constructed from the meta of l (getMeta) against the same store:
\* setMeta derives the count and the tree, nothing is loaded
Rehydrate(l) ==
  NewSequence(l.kind, l.segmentCount, l.chunkCount,
              [i \in 1..Len(l.segments) |-> [l.segments[i] EXCEPT !.ref = i - 1]],
              l.chunks)

(* ---- FenwickList ---- *)

\* mutant: the point update after a non-splitting insert is forgotten
InlineFenwickAdd_Skipped(f, segIndex) == f

\* the inline point update of insertAt (same loop as addFenwick)
InlineFenwickAdd(f, segIndex) == AddFenwickLoop(f, segIndex + 1, 1)

\* Math.max(0, Math.min(index, this.totalCount))
Clamp(index, totalCount) == Max2(0, Min2(index, totalCount))

\* FenwickList.insertAt(index, value)
insertAt(l, st, index, value) ==
  LET clamped == Clamp(index, l.totalCount)
  IN  IF Len(l.segments) = 0 THEN createInitialSegment(l, value)
      ELSE IF clamped = l.totalCount
        THEN \* fast append path
             LET segIndex == Len(l.segments) - 1
                 r == l.segments[segIndex + 1].ref
             IN  TheOne({
                   IF OverCapacity(l2.segments[segIndex + 1].count, l2.segmentCount)
                     THEN splitSegment(l2, segIndex)
                     ELSE l2 :
                   l2 \in {[SetCount(l1, r, l1.segments[segIndex + 1].count + 1) EXCEPT
                              !.segmentArrays[r] = Append(@, value),
                              !.totalCount = @ + 1,
                              !.fenwick = addFenwick(@, segIndex, 1),
                              !.dirty = @ \cup {r}] :
                            l1 \in {getOrCreateArraySync(ensureSegmentLoaded(l, st, r),
                                                         r, <<>>)}}})
        ELSE LET f == findByIndex(l, clamped)
                 r == l.segments[f.segIndex + 1].ref
             IN  TheOne({
                   [l3 EXCEPT !.dirty = @ \cup {r}] :
                   l3 \in {IF OverCapacity(l2.segments[f.segIndex + 1].count, l2.segmentCount)
                             THEN splitSegment(l2, f.segIndex)
                             ELSE [l2 EXCEPT !.fenwick = InlineFenwickAdd(@, f.segIndex)] :
                            l2 \in {[SetCount(l1, r, l1.segments[f.segIndex + 1].count + 1)
                                       EXCEPT
                                       !.segmentArrays[r] =
                                          SpliceInsert(@, f.localIndex, value),
                                       !.totalCount = @ + 1] :
                                     l1 \in {getOrCreateArraySync(
                                               ensureSegmentLoaded(l, st, r), r, <<>>)}}}})

(* ---- FenwickList.insertManyAt ---- *)
\* an insert pair is [idx, val, order, rank]; the comparator of the sort is
\* (a.idx - b.idx) || (a.order - b.order)
PairLess(p, q) == p.idx < q.idx \/ (p.idx = q.idx /\ p.order < q.order)

\* sortAndRankInsertPairs on the pairs made of indexes and values: sorted by
\* target index, then by input order, rank = the position after sorting
sortAndRankInsertPairs(indexes, values) ==
  LET n == Len(indexes)
      pair(i) == [idx |-> indexes[i], val |-> values[i], order |-> i - 1]
      before(i) == Cardinality({j \in 1..n : PairLess(pair(j), pair(i))})
  IN  [r \in 1..n |->
         LET i == CHOOSE k \in 1..n : before(k) = r - 1
         IN  [idx |-> indexes[i], val |-> values[i], order |-> i - 1, rank |-> r - 1]]

\* the fast path on an empty structure: the sorted pairs are spliced one by one
\* into a new array at the index clamped to its length
RECURSIVE EmptySplice(_, _, _)
EmptySplice(pairs, i, newArr) ==
  IF i > Len(pairs) THEN newArr
  ELSE EmptySplice(pairs, i + 1,
                   SpliceInsert(newArr, Max2(0, Min2(pairs[i].idx, Len(newArr))),
                                pairs[i].val))

\* the old-index transform: oldIdx = clamp(idx - i) for the pair at position i of
\* the sorted pairs
OldIndex(idx, i, totalCount) == Max2(0, Min2(totalCount, idx - i))

\* mapped: the sorted pairs in the coordinates of the array before the call
MapPairs(pairs, totalCount) ==
  [i \in 1..Len(pairs) |->
     [oldIdx |-> OldIndex(pairs[i].idx, i - 1, totalCount),
      val |-> pairs[i].val, rank |-> pairs[i].rank]]

\* perSeg is a Map from segment index to its inserts, kept in the order in which
\* the segment indexes were first set: a sequence of [segIndex, inserts]
PerSegPush(perSeg, segIndex, ins) ==
  IF \E e \in 1..Len(perSeg) : perSeg[e].segIndex = segIndex
    THEN [e \in 1..Len(perSeg) |->
            IF perSeg[e].segIndex = segIndex
              THEN [perSeg[e] EXCEPT !.inserts = Append(@, ins)]
              ELSE perSeg[e]]
    ELSE Append(perSeg, [segIndex |-> segIndex, inserts |-> <<ins>>])

\* the grouping loop: a pair at the end goes to the last segment (which is
\* loaded), any other to the segment findByIndex names
RECURSIVE GroupBySegment(_, _, _, _, _)
GroupBySegment(l, st, mapped, i, perSeg) ==
  IF i > Len(mapped) THEN [l |-> l, perSeg |-> perSeg]
  ELSE IF mapped[i].oldIdx = l.totalCount
    THEN LET segIndex == Max2(0, Len(l.segments) - 1)
             r == l.segments[segIndex + 1].ref
         IN  TheOne({GroupBySegment(l1, st, mapped, i + 1,
                       PerSegPush(perSeg, segIndex,
                                  [local |-> Len(l1.segmentArrays[r]),
                                   val |-> mapped[i].val, rank |-> mapped[i].rank])) :
                      l1 \in {getOrCreateArraySync(ensureSegmentLoaded(l, st, r), r, <<>>)}})
    ELSE TheOne({GroupBySegment(l, st, mapped, i + 1,
                   PerSegPush(perSeg, f.segIndex,
                              [local |-> f.localIndex,
                               val |-> mapped[i].val, rank |-> mapped[i].rank])) :
                  f \in {findByIndex(l, mapped[i].oldIdx)}})

\* getReadOnlyArrayForSegment(segment): the prefetch loads the chunk of a segment
\* that has no working array
getReadOnlyArrayForSegment(l, st, r) ==
  IF r \in DOMAIN l.segmentArrays THEN l
  ELSE getOrLoadChunk(l, st, getSegmentIndex(l, r) \div effectiveChunkSize(l))

RECURSIVE Prefetch(_, _, _, _)
Prefetch(l, st, perSeg, e) ==
  IF e > Len(perSeg) THEN l
  ELSE Prefetch(getReadOnlyArrayForSegment(l, st, l.segments[perSeg[e].segIndex + 1].ref),
                st, perSeg, e + 1)

\* inserts.sort((a, b) => (a.local - b.local) || (a.rank - b.rank))
InsertLess(a, b) == a.local < b.local \/ (a.local = b.local /\ a.rank < b.rank)

SortInserts(ins) ==
  LET n == Len(ins)
      before(i) == Cardinality({j \in 1..n : InsertLess(ins[j], ins[i])})
  IN  [r \in 1..n |-> ins[CHOOSE k \in 1..n : before(k) = r - 1]]

\* arr[k], undefined beyond the end
ArrayAt(arr, k) == IF k + 1 <= Len(arr) THEN arr[k + 1] ELSE Undefined

\* the values of the inserts i.. that share the local position of insert i
RECURSIVE SameLocal(_, _, _)
SameLocal(ins, j, local) ==
  IF j > Len(ins) \/ ins[j].local # local THEN <<>>
  ELSE <<ins[j].val>> \o SameLocal(ins, j + 1, local)

\* the merge of one segment: what lies before the insertion point is copied, the
\* values for that point follow in sorted order, then the occupant of the point
RECURSIVE MergeLoop(_, _, _, _, _)
MergeLoop(arr, ins, i, src, newArr) ==
  IF i > Len(ins)
    THEN newArr \o Slice(arr, src, Len(arr))
    ELSE LET currentLocal == ins[i].local
             take == Max2(0, currentLocal - src)
             copied == [k \in 1..take |-> ArrayAt(arr, src + k - 1)]
             group == SameLocal(ins, i, currentLocal)
             src1 == src + take
             occupant == IF src1 < Len(arr) /\ src1 = currentLocal
                           THEN <<arr[src1 + 1]>> ELSE <<>>
         IN  MergeLoop(arr, ins, i + Len(group), src1 + Len(occupant),
                       newArr \o copied \o group \o occupant)

\* while (seg.count > this.meta.segmentCount) await this.splitSegment(segIndex),
\* for the segment object r at segIndex; a split cuts an array of two or more
\* elements, and seg.count is the length of the array here
RECURSIVE SplitWhileOver(_, _, _)
SplitWhileOver(l, segIndex, r) ==
  IF /\ OverCapacity(l.segments[getSegmentIndex(l, r) + 1].count, l.segmentCount)
     /\ Len(l.segmentArrays[r]) >= 2
    THEN TheOne({SplitWhileOver(l1, segIndex, r) : l1 \in {splitSegment(l, segIndex)}})
    ELSE l

\* one pass of the loop over perSeg up to its split loop: the segment is looked
\* up by the index recorded while grouping, loaded, merged and marked dirty
MergeSegment(l, st, perSeg, e) ==
  LET segIndex == perSeg[e].segIndex
      r == l.segments[segIndex + 1].ref
  IN  TheOne({
        TheOne({[SetCount(l1, r, Len(newArr)) EXCEPT
                   !.segmentArrays[r] = newArr,
                   !.dirty = @ \cup {r}] :
                newArr \in {MergeLoop(l1.segmentArrays[r], SortInserts(perSeg[e].inserts),
                                      1, 0, <<>>)}}) :
        l1 \in {getOrCreateArraySync(ensureSegmentLoaded(l, st, r), r, <<>>)}})

\* the loop over perSeg: each segment is merged and split while it is over
\* capacity
RECURSIVE ApplyPerSegment(_, _, _, _)
ApplyPerSegment(l, st, perSeg, e) ==
  IF e > Len(perSeg) THEN l
  ELSE LET segIndex == perSeg[e].segIndex
           r == l.segments[segIndex + 1].ref
       IN  TheOne({ApplyPerSegment(l3, st, perSeg, e + 1) :
                    l3 \in {SplitWhileOver(MergeSegment(l, st, perSeg, e), segIndex, r)}})

\* rebuildIndices(): the Fenwick tree and the index map are rebuilt from the
\* segment list
rebuildIndices(l) == [l EXCEPT !.fenwick = buildFenwick(l.segments)]

\* the fast path of insertManyAt on an empty structure up to its split loop: one
\* segment seeded with the batch
SeedInitialSegment(l, pairs) ==
  LET r == l.nextRef
  IN  TheOne({rebuildIndices([l EXCEPT !.segments = Append(@, NewSegment(l, r, newArr)),
                                       !.segmentArrays = (r :> newArr) @@ @,
                                       !.nextRef = @ + 1,
                                       !.totalCount = Len(newArr),
                                       !.dirty = @ \cup {r}]) :
               newArr \in {EmptySplice(pairs, 1, <<>>)}})

\* the fast path of insertManyAt on an empty structure
insertManyEmpty(l, pairs) ==
  SplitWhileOver(SeedInitialSegment(l, pairs), Len(l.segments), l.nextRef)

\* FenwickList.insertManyAt(indexes, values); a call with arrays of different
\* length throws before it changes anything, a call with one pair is the single
\* insert
insertManyAt(l, st, indexes, values) ==
  IF Len(indexes) # Len(values) \/ Len(indexes) = 0 THEN l
  ELSE IF Len(indexes) = 1 THEN insertAt(l, st, indexes[1], values[1])
  ELSE IF Len(l.segments) = 0
    THEN insertManyEmpty(l, sortAndRankInsertPairs(indexes, values))
  ELSE TheOne({
         TheOne({rebuildIndices([l2 EXCEPT !.totalCount = @ + Len(indexes)]) :
                  l2 \in {ApplyPerSegment(Prefetch(g.l, st, g.perSeg, 1), st, g.perSeg, 1)}}) :
         g \in {GroupBySegment(l, st,
                               MapPairs(sortAndRankInsertPairs(indexes, values),
                                        l.totalCount),
                               1, <<>>)}})

(* ---- reference model of an indexed sequence ---- *)
RefInsert(vec, index, value) == SpliceInsert(vec, Clamp(index, Len(vec)), value)

NoCall == [op |-> "none"]

\* out holds the last call and its result. A query (get, range, scan, getIndex)
\* is issued after the construction or after an insert: queries leave a sequence
\* whose segments are all loaded unchanged, so a query after a query reaches
\* nothing new
IsQuery(o) == o.op \in {"get", "range", "scan", "getIndex", "getInserted"}
EmptyStore == <<>>
NoFlush == [done |-> FALSE, n |-> 0]

\* the parts of the state a specification does not use
ListUnused == list = NewSequence("list", 1, 1, <<>>, <<>>) /\ ref = <<>>
OrderedUnused == olist = NewSequence("ordered", 1, 1, <<>>, <<>>) /\ inserted = <<>>
\* the counters of a TracingStore and the store gets in flight: pc is "none"
\* where no call is traced
NoTracing ==
  [pc |-> "none", pending |-> {}, activeGets |-> 0, maxActiveGets |-> 0,
   totalGets |-> 0]
StoreEmpty ==
  store = EmptyStore /\ clock = 0 /\ lastFlush = NoFlush /\ tracing = NoTracing
TableUnused == table = <<>> /\ metaStore = <<>> /\ tflush = <<>> /\ given = <<>>

(* ---- specification SpecList: a fresh FenwickList under insertAt, get and range ---- *)

InitList ==
  /\ \E s \in 1..MaxSegmentCount : list = NewSequence("list", s, 1, <<>>, <<>>)
  /\ ref = <<>>
  /\ out = NoCall
  /\ OrderedUnused /\ StoreEmpty /\ TableUnused

\* insertAt(i, v) with i from below 0 to beyond the end; v labels the call
InsertAt ==
  /\ Len(ref) < MaxInserts
  /\ \E i \in -1..(Len(ref) + 1) :
       /\ list' = insertAt(list, store, i, Len(ref) + 1)
       /\ ref' = RefInsert(ref, i, Len(ref) + 1)
       /\ out' = [op |-> "insertAt", index |-> i]
  /\ UNCHANGED <<orderedVars, storeVars, tableVars>>

\* get(i) on the sequence; the result is kept in out
Get ==
  /\ ~IsQuery(out)
  /\ \E i \in -1..(Len(ref) + 1) :
       \E g \in {get(list, store, i)} :
           /\ list' = g.l
           /\ out' = [op |-> "get", index |-> i, value |-> g.value]
  /\ UNCHANGED <<ref, orderedVars, storeVars, tableVars>>

\* range(a, b) on the sequence; the result is kept in out
Range ==
  /\ ~IsQuery(out)
  /\ \E a \in -1..(Len(ref) + 1), b \in -1..(Len(ref) + 2) :
       \E g \in {range(list, store, a, b)} :
           /\ list' = g.l
           /\ out' = [op |-> "range", a |-> a, b |-> b, value |-> g.value]
  /\ UNCHANGED <<ref, orderedVars, storeVars, tableVars>>

NextList == InsertAt \/ Get \/ Range

SpecList == InitList /\ [][NextList]_vars

\* the content of an indexed or ordered sequence as range(0, totalCount) returns it
Content(l, st) == range(l, st, 0, l.totalCount).value

\* C1: after any sequence of insertAt calls on a fresh indexed sequence, for every
\* segment capacity S >= 1, range(0, total_count) equals the vector built by
\* splice-inserting each value at clamp(i, 0, current length) in call order
C1_InsertAtRefinesSplice ==
  /\ list.totalCount = Len(ref)
  /\ Content(list, store) = ref

\* C1 witness: inserts below 0 or beyond the end and in the middle have happened
\* and some segment has been split while other segments follow it
C1_Witness ==
  /\ Len(ref) = MaxInserts
  /\ Len(list.segments) >= 3
  /\ ref # [i \in 1..Len(ref) |-> i]
  /\ out.op = "insertAt" /\ out.index = -1

\* C23: in every state with non-empty segments and for every i in
\* [0, total_count), findByIndex(i) returns the unique (segIndex, localIndex) with
\* prefixSum(segIndex) <= i < prefixSum(segIndex + 1) and
\* localIndex = i - prefixSum(segIndex), for every number of segments
C23_FenwickLocate ==
  (Len(list.segments) > 0 /\ \A s \in 1..Len(list.segments) : list.segments[s].count > 0) =>
    \A i \in 0..(list.totalCount - 1) :
      LET f == findByIndex(list, i)
      IN  /\ f.segIndex \in 0..(Len(list.segments) - 1)
          /\ prefixSum(list, f.segIndex) <= i
          /\ i < prefixSum(list, f.segIndex + 1)
          /\ f.localIndex = i - prefixSum(list, f.segIndex)
          /\ \A k \in 0..(Len(list.segments) - 1) :
               (prefixSum(list, k) <= i /\ i < prefixSum(list, k + 1)) => k = f.segIndex

\* C23 witness: three segments (not a power of two) of different counts, with an
\* index located in the last one at a local index above 0
C23_Witness ==
  /\ Len(list.segments) = 3
  /\ list.segments[3].count = 2
  /\ list.segments[1].count = 1
  /\ findByIndex(list, list.totalCount - 1) = [segIndex |-> 2, localIndex |-> 1]

RECURSIVE SequentialInsertAt(_, _, _, _, _)
SequentialInsertAt(l, st, indexes, values, from) ==
  IF from > Len(indexes) THEN l
  ELSE TheOne({SequentialInsertAt(l1, st, indexes, values, from + 1) :
                 l1 \in {insertAt(l, st, indexes[from], values[from])}})

InitBulk ==
  /\ \E s \in 1..(MaxSegmentCount + 1) : list = NewSequence("list", s, 1, <<>>, <<>>)
  /\ ref = <<>>
  /\ out = NoCall
  /\ OrderedUnused /\ StoreEmpty /\ TableUnused

\* insertAt(i, v); ref is the content the call has to leave
BulkInsertAt ==
  /\ list.totalCount < MaxBulkInserts
  /\ \E i \in 0..list.totalCount :
       /\ list' = insertAt(list, store, i, list.totalCount + 1)
       /\ ref' = RefInsert(Content(list, store), i, list.totalCount + 1)
       /\ out' = [op |-> "insertAt", index |-> i]
  /\ UNCHANGED <<orderedVars, storeVars, tableVars>>

\* insertManyAt(indexes, values) with two or more pairs, indexes from below 0 to
\* beyond the end, unsorted and repeated; ref is the content the same pairs leave
\* when insertAt is called for them one by one, pre the content before the call
InsertManyAt ==
  /\ \E n \in 2..MaxBatch :
       /\ list.totalCount + n <= MaxBulkInserts
       /\ \E indexes \in [1..n -> -1..(list.totalCount + n)] :
            LET values == [k \in 1..n |-> list.totalCount + k]
            IN  /\ list' = insertManyAt(list, store, indexes, values)
                /\ ref' = Content(SequentialInsertAt(list, store, indexes, values, 1), store)
                /\ out' = [op |-> "insertManyAt", indexes |-> indexes, values |-> values,
                           pre |-> Content(list, store)]
  /\ UNCHANGED <<orderedVars, storeVars, tableVars>>

NextBulk == BulkInsertAt \/ InsertManyAt

SpecBulk == InitBulk /\ [][NextBulk]_vars

\* C14: insertManyAt(indexes, values) with arrays of equal length and arbitrary
\* indexes (unsorted, repeated, negative, oversize) leaves the content, as
\* range(0, total_count) returns it, that the calls insertAt(indexes[k],
\* values[k]) for k = 0..n-1 in input order leave
C14_BulkEqualsSequential ==
  out.op = "insertManyAt" =>
    /\ list.totalCount = Len(ref)
    /\ Content(list, store) = ref

\* C15: when the pairs of a batch name the same target index i with
\* 0 <= i <= total_count, their values end up contiguous and in input order from
\* position i on, directly followed by the element that was at position i
C15_EqualIndexesKeepInputOrder ==
  (/\ out.op = "insertManyAt"
   /\ \A k \in DOMAIN out.indexes : out.indexes[k] = out.indexes[1]
   /\ out.indexes[1] >= 0 /\ out.indexes[1] <= Len(out.pre)) =>
    Content(list, store) =
      Slice(out.pre, 0, out.indexes[1]) \o out.values \o
      Slice(out.pre, out.indexes[1], Len(out.pre))

\* C26: after insertManyAt has returned every segment has count <= S, on the
\* empty-sequence fast path and when many pairs land in one existing segment
C26_BulkInsertCapacity ==
  out.op = "insertManyAt" =>
    \A k \in 1..Len(list.segments) : list.segments[k].count <= list.segmentCount

\* simulateBatch(initial, indexes, values): the pairs sorted by target index, then
\* by input order, are spliced one by one at the index clamped to the current
\* length
RECURSIVE SimulateSplice(_, _, _)
SimulateSplice(content, pairs, i) ==
  IF i > Len(pairs) THEN content
  ELSE SimulateSplice(SpliceInsert(content, Max2(0, Min2(pairs[i].idx, Len(content))),
                                   pairs[i].val),
                      pairs, i + 1)

simulateBatch(initial, indexes, values) ==
  SimulateSplice(initial, sortAndRankInsertPairs(indexes, values), 1)

\* the indexes of a batch are pairwise distinct
PairwiseDistinct(indexes) ==
  \A i, j \in DOMAIN indexes : i # j => indexes[i] # indexes[j]

\* C27: insertManyAt with pairwise distinct target indexes leaves the content of
\* the sorted splice simulation, also for batches that touch several segments and
\* when an earlier touched segment is split before a later one is processed
C27_BulkEqualsSortedSplice ==
  (out.op = "insertManyAt" /\ PairwiseDistinct(out.indexes)) =>
    /\ list.totalCount = Len(out.pre) + Len(out.indexes)
    /\ Content(list, store) = simulateBatch(out.pre, out.indexes, out.values)

(* ---- specification SpecSplit: insertManyAt as the steps between its awaits,
        one step per turn of its split loops ---- *)
\* a call is in its split loop (pc "loop") for the segment object seg at
\* segIndex, entry e of perSeg (0 on the fast path); before is the sequence as
\* the last splitSegment call found it
NoBefore == <<>>

\* capacities from 0 on: the constructor takes any number as segmentCount
InitSplit ==
  /\ \E s \in 0..MaxSegmentCount : list = NewSequence("list", s, 1, <<>>, <<>>)
  /\ ref = <<>>
  /\ out = NoCall
  /\ OrderedUnused /\ StoreEmpty /\ TableUnused

\* insertManyAt(indexes, values) with two or more pairs up to its first split
\* loop: the fast path seeds the initial segment, the general path groups the
\* pairs, prefetches and merges the first touched segment
ManyStart ==
  /\ IF out.op = "insertManyAt" THEN out.pc = "done" ELSE TRUE
  /\ \E n \in 2..MaxBatch :
       /\ list.totalCount + n <= MaxSplitInserts
       /\ \E indexes \in [1..n -> -1..(list.totalCount + n)] :
            LET values == [k \in 1..n |-> list.totalCount + k]
                pairs == sortAndRankInsertPairs(indexes, values)
            IN  IF Len(list.segments) = 0
                  THEN /\ list' = SeedInitialSegment(list, pairs)
                       /\ out' = [op |-> "insertManyAt", pc |-> "loop", n |-> n,
                                  segIndex |-> 0, seg |-> list.nextRef,
                                  perSeg |-> <<>>, e |-> 0,
                                  last |-> "start", before |-> NoBefore]
                  ELSE \E g \in {GroupBySegment(list, store,
                                                MapPairs(pairs, list.totalCount), 1, <<>>)} :
                         /\ list' = MergeSegment(Prefetch(g.l, store, g.perSeg, 1), store,
                                                 g.perSeg, 1)
                         /\ out' = [op |-> "insertManyAt", pc |-> "loop", n |-> n,
                                    segIndex |-> g.perSeg[1].segIndex,
                                    seg |-> list.segments[g.perSeg[1].segIndex + 1].ref,
                                    perSeg |-> g.perSeg, e |-> 1,
                                    last |-> "start", before |-> NoBefore]
  /\ ref' = Content(list, store)
  /\ UNCHANGED <<orderedVars, storeVars, tableVars>>

\* the loop test seg.count > this.meta.segmentCount on the segment object
LoopCondition ==
  OverCapacity(list.segments[getSegmentIndex(list, out.seg) + 1].count, list.segmentCount)

\* one turn of the loop: await this.splitSegment(segIndex)
SplitIteration ==
  /\ out.op = "insertManyAt" /\ out.pc = "loop"
  /\ LoopCondition
  /\ list' = splitSegment(list, out.segIndex)
  /\ out' = [out EXCEPT !.last = "split", !.before = list]
  /\ UNCHANGED <<ref, orderedVars, storeVars, tableVars>>

\* the loop test fails: the fast path returns; the general path goes on to merge
\* the next touched segment, or adds the batch to the total, rebuilds the indices
\* and returns
LoopExit ==
  /\ out.op = "insertManyAt" /\ out.pc = "loop"
  /\ ~LoopCondition
  /\ IF out.e = 0
       THEN /\ list' = list
            /\ out' = [out EXCEPT !.pc = "done", !.last = "exit"]
       ELSE IF out.e < Len(out.perSeg)
         THEN /\ list' = MergeSegment(list, store, out.perSeg, out.e + 1)
              /\ out' = [out EXCEPT !.e = @ + 1, !.last = "exit",
                           !.segIndex = out.perSeg[out.e + 1].segIndex,
                           !.seg = list.segments[out.perSeg[out.e + 1].segIndex + 1].ref]
         ELSE /\ list' = rebuildIndices([list EXCEPT !.totalCount = @ + out.n])
              /\ out' = [out EXCEPT !.pc = "done", !.last = "exit"]
  /\ UNCHANGED <<ref, orderedVars, storeVars, tableVars>>

NextSplit == ManyStart \/ SplitIteration \/ LoopExit

SpecSplit == InitSplit /\ [][NextSplit]_vars

\* the event loop runs a call that is not waiting for the store to its end
FairSpecSplit == SpecSplit /\ WF_vars(SplitIteration) /\ WF_vars(LoopExit)

\* where a call is: in one of its split loops, or returned
InSplitLoop == out.op = "insertManyAt" /\ out.pc = "loop"
Returned == IF out.op = "insertManyAt" THEN out.pc = "done" ELSE FALSE

\* the concatenation of the working arrays in segment order
RECURSIVE ConcatArrays(_, _)
ConcatArrays(l, k) ==
  IF k = 0 THEN <<>>
  ELSE ConcatArrays(l, k - 1) \o l.segmentArrays[l.segments[k].ref]

\* C24: a split of the segment at index k leaves the left half (floor(count/2)
\* elements) as the segment at k and the right half as a new segment at k+1, both
\* non-empty, the segment list longer by one, the concatenation of all segment
\* arrays unchanged and both halves dirty; a split with an empty half is
\* suppressed and leaves the segment's array intact
C24_SplitPostCondition ==
  (out.op = "insertManyAt" /\ out.last = "split") =>
    LET b == out.before
        k == out.segIndex
        r == b.segments[k + 1].ref
        arr == b.segmentArrays[r]
        mid == Len(arr) \div 2
    IN  IF mid = 0 \/ mid = Len(arr)
          THEN /\ list.segments = b.segments
               /\ list.segmentArrays[r] = arr
          ELSE /\ Len(list.segments) = Len(b.segments) + 1
               /\ list.segments[k + 1].ref = r
               /\ list.segmentArrays[r] = Slice(arr, 0, mid)
               /\ list.segments[k + 1].count = mid
               /\ list.segments[k + 2].ref \notin DOMAIN b.segmentArrays
               /\ list.segmentArrays[list.segments[k + 2].ref] = Slice(arr, mid, Len(arr))
               /\ list.segments[k + 2].count = Len(arr) - mid
               /\ ConcatArrays(list, Len(list.segments)) = ConcatArrays(b, Len(b.segments))
               /\ {r, list.segments[k + 2].ref} \subseteq list.dirty

\* C28: every insertManyAt call that enters its split loop returns
C28_SplitLoopTerminates == InSplitLoop ~> Returned

(* ---- FenwickOrderedList ---- *)

\* defaultCmp
cmp(a, b) == IF a < b THEN -1 ELSE IF a > b THEN 1 ELSE 0

\* findFirstSegmentByMaxLowerBound: binary search for the first segment with
\* max >= value, the last segment when there is none
RECURSIVE FirstByMaxLoop(_, _, _, _)
FirstByMaxLoop(segments, value, lo, hi) ==
  IF lo < hi
    THEN LET mid == (lo + hi) \div 2
         IN  IF cmp(segments[mid + 1].max, value) >= 0
               THEN FirstByMaxLoop(segments, value, lo, mid)
               ELSE FirstByMaxLoop(segments, value, mid + 1, hi)
    ELSE lo

\* mutant: the last segment is always chosen
findFirstSegmentByMaxLowerBound_Last(l, value) == Len(l.segments) - 1

findFirstSegmentByMaxLowerBound(l, value) ==
  Min2(FirstByMaxLoop(l.segments, value, 0, Len(l.segments)), Len(l.segments) - 1)

\* boundInArray(arr, value, upper)
RECURSIVE BoundLoop(_, _, _, _, _)
BoundLoop(arr, value, upper, lo, hi) ==
  IF lo < hi
    THEN LET mid == (lo + hi) \div 2
             cmpRes == cmp(arr[mid + 1], value)
         IN  IF (IF upper THEN cmpRes <= 0 ELSE cmpRes < 0)
               THEN BoundLoop(arr, value, upper, mid + 1, hi)
               ELSE BoundLoop(arr, value, upper, lo, mid)
    ELSE lo

boundInArray(arr, value, upper) == BoundLoop(arr, value, upper, 0, Len(arr))

\* mutant: an upper bound where the lower bound is meant
lowerBoundInArray_Upper(arr, value) == boundInArray(arr, value, TRUE)

lowerBoundInArray(arr, value) == boundInArray(arr, value, FALSE)

upperBoundInArray(arr, value) == boundInArray(arr, value, TRUE)

\* mutant: the bounds of the segment are left as they were
UpdateMinMax_Unchanged(seg, value) == seg

\* the update of min or max after the insertion of value into the segment
UpdateMinMax(seg, value) ==
  IF cmp(value, seg.min) < 0 THEN [seg EXCEPT !.min = value]
  ELSE IF cmp(value, seg.max) > 0 THEN [seg EXCEPT !.max = value]
  ELSE seg

\* FenwickOrderedList.insert(value): the sequence afterwards and the returned position
insert(l, st, value) ==
  IF Len(l.segments) = 0 THEN [l |-> createInitialSegment(l, value), value |-> 0]
  ELSE LET segIndex == findFirstSegmentByMaxLowerBound(l, value)
           r == l.segments[segIndex + 1].ref
       IN  TheOne({
             LET arr == l1.segmentArrays[r]
                 localIndex == lowerBoundInArray(arr, value)
                 insertPos == prefixSum(l1, segIndex) + localIndex
                 seg == l1.segments[segIndex + 1]
             IN  TheOne({
                   [l |-> IF OverCapacity(l2.segments[segIndex + 1].count, l2.segmentCount)
                            THEN splitSegment(l2, segIndex) ELSE l2,
                    value |-> insertPos] :
                   l2 \in {[l1 EXCEPT
                              !.segmentArrays[r] =
                                 IF localIndex = Len(arr) THEN Append(arr, value)
                                 ELSE SpliceInsert(arr, localIndex, value),
                              !.segments[segIndex + 1] =
                                 UpdateMinMax([seg EXCEPT !.count = @ + 1], value),
                              !.totalCount = @ + 1,
                              !.fenwick = addFenwick(@, segIndex, 1),
                              !.dirty = @ \cup {r}]}}) :
             l1 \in {getOrCreateArraySync(ensureSegmentLoaded(l, st, r), r, <<>>)}})

\* scan: the end j of the candidate range [i, j): segments while min < max
RECURSIVE ScanExtend(_, _, _)
ScanExtend(segments, max, j) ==
  IF j < Len(segments) /\ ~(cmp(segments[j + 1].min, max) >= 0)
    THEN ScanExtend(segments, max, j + 1)
    ELSE j

\* the upper cut of scan inside a segment: lower_bound(max)
\* mutant: upper_bound(max), which lets the elements equal to max in
ScanEnd_Inclusive(arr, max) == upperBoundInArray(arr, max)

ScanEnd(arr, max) == lowerBoundInArray(arr, max)

\* scan: the collecting loop over the candidates
RECURSIVE ScanCollect(_, _, _, _, _, _)
ScanCollect(l, i, j, min, max, acc) ==
  IF ~(i < j) THEN [l |-> l, value |-> acc]
  ELSE LET r == l.segments[i + 1].ref
       IN  TheOne({
             LET arr == l1.segmentArrays[r]
                 start == lowerBoundInArray(arr, min)
                 end == ScanEnd(arr, max)
             IN  TheOne({IF end < Len(arr) THEN [l |-> l1, value |-> acc1]
                         ELSE ScanCollect(l1, i + 1, j, min, max, acc1) :
                          acc1 \in {IF start < end THEN acc \o Slice(arr, start, end)
                                    ELSE acc}}) :
             l1 \in {getOrCreateArraySync(l, r, <<>>)}})

\* FenwickOrderedList.scan(min, max)
scan(l, st, min, max) ==
  IF Len(l.segments) = 0 THEN [l |-> l, value |-> <<>>]
  ELSE LET i == findFirstSegmentByMaxLowerBound(l, min)
           j == ScanExtend(l.segments, max, i)
       IN  TheOne({ScanCollect(l1, i, j, min, max, <<>>) :
                    l1 \in {LoadSegments(l, st, i, j - 1)}})

\* FenwickOrderedList.getIndex(value)
getIndex(l, st, value) ==
  IF Len(l.segments) = 0 THEN [l |-> l, value |-> 0]
  ELSE LET segIndex == findFirstSegmentByMaxLowerBound(l, value)
           r == l.segments[segIndex + 1].ref
       IN  TheOne({[l |-> l1,
                    value |-> prefixSum(l1, segIndex) +
                              lowerBoundInArray(l1.segmentArrays[r], value)] :
                    l1 \in {getOrCreateArraySync(ensureSegmentLoaded(l, st, r), r, <<>>)}})

(* ---- reference model of an ordered sequence: a sorted vector ---- *)
CountLess(s, v) == Cardinality({k \in 1..Len(s) : s[k] < v})

SortedInsert(s, v) == SpliceInsert(s, CountLess(s, v), v)

(* ---- specification SpecOrdered: a fresh FenwickOrderedList ---- *)

InitOrdered ==
  /\ \E s \in 1..MaxSegmentCount : olist = NewSequence("ordered", s, 1, <<>>, <<>>)
  /\ inserted = <<>>
  /\ out = NoCall
  /\ ListUnused /\ StoreEmpty /\ TableUnused

\* insert(v); inserted is the reference content (the sorted multiset of the values
\* inserted so far), out the returned position
Insert ==
  /\ Len(inserted) < MaxOrderedInserts
  /\ \E v \in 1..MaxValue :
       \E g \in {insert(olist, store, v)} :
           /\ olist' = g.l
           /\ inserted' = SortedInsert(inserted, v)
           /\ out' = [op |-> "insert", v |-> v, value |-> g.value]
  /\ UNCHANGED <<listVars, storeVars, tableVars>>

\* scan(lo, hi) for bounds from below the smallest to above the largest value
Scan ==
  /\ ~IsQuery(out)
  /\ \E lo \in 0..(MaxValue + 1), hi \in 0..(MaxValue + 1) :
       \E g \in {scan(olist, store, lo, hi)} :
           /\ olist' = g.l
           /\ out' = [op |-> "scan", lo |-> lo, hi |-> hi, value |-> g.value]
  /\ UNCHANGED <<listVars, inserted, storeVars, tableVars>>

\* getIndex(v)
GetIndex ==
  /\ ~IsQuery(out)
  /\ \E v \in 0..(MaxValue + 1) :
       \E g \in {getIndex(olist, store, v)} :
           /\ olist' = g.l
           /\ out' = [op |-> "getIndex", v |-> v, value |-> g.value]
  /\ UNCHANGED <<listVars, inserted, storeVars, tableVars>>

\* get(i) right after an insert, at the position the insert returned
GetInserted ==
  /\ out.op = "insert"
  /\ \E g \in {get(olist, store, out.value)} :
       /\ olist' = g.l
       /\ out' = [op |-> "getInserted", v |-> out.v, value |-> g.value]
  /\ UNCHANGED <<listVars, inserted, storeVars, tableVars>>

NextOrdered == Insert \/ Scan \/ GetIndex \/ GetInserted

SpecOrdered == InitOrdered /\ [][NextOrdered]_vars

(* ---- specification SpecSingle: one fresh sequence, indexed or ordered, under
        its single-element insert ---- *)
\* both kinds are constructed with capacity s; the two objects share nothing, so
\* a behaviour exercises the one its first call names
InitSingle ==
  /\ \E s \in 1..MaxSegmentCount :
       /\ list = NewSequence("list", s, 1, <<>>, <<>>)
       /\ olist = NewSequence("ordered", s, 1, <<>>, <<>>)
  /\ ref = <<>> /\ inserted = <<>>
  /\ out = NoCall
  /\ StoreEmpty /\ TableUnused

\* insertAt(i, v) on the indexed sequence
SingleInsertAt ==
  /\ Len(olist.segments) = 0
  /\ Len(ref) < MaxSingleInserts
  /\ \E i \in -1..(Len(ref) + 1) :
       /\ list' = insertAt(list, store, i, Len(ref) + 1)
       /\ ref' = RefInsert(ref, i, Len(ref) + 1)
       /\ out' = [op |-> "insertAt", index |-> i]
  /\ UNCHANGED <<orderedVars, storeVars, tableVars>>

\* insert(v) on the ordered sequence
SingleInsert ==
  /\ Len(list.segments) = 0
  /\ Len(inserted) < MaxSingleInserts
  /\ \E v \in 1..MaxValue :
       \E g \in {insert(olist, store, v)} :
         /\ olist' = g.l
         /\ inserted' = SortedInsert(inserted, v)
         /\ out' = [op |-> "insert", v |-> v, value |-> g.value]
  /\ UNCHANGED <<listVars, storeVars, tableVars>>

NextSingle == SingleInsertAt \/ SingleInsert

SpecSingle == InitSingle /\ [][NextSingle]_vars

\* every segment of l holds between 1 and S elements and a working array is as
\* long as its segment's count
WithinCapacity(l) ==
  \A k \in 1..Len(l.segments) :
    /\ 1 <= l.segments[k].count
    /\ l.segments[k].count <= l.segmentCount
    /\ l.segments[k].ref \in DOMAIN l.segmentArrays =>
         Len(l.segmentArrays[l.segments[k].ref]) = l.segments[k].count

CountOf(s, v) == Cardinality({k \in 1..Len(s) : s[k] = v})

NonDecreasing(s) == \A k \in 1..(Len(s) - 1) : s[k] <= s[k + 1]

\* the sub-sequence of s of the elements x with lo <= x < hi
RECURSIVE Filter(_, _, _)
Filter(s, lo, hi) ==
  IF s = <<>> THEN <<>>
  ELSE (IF lo <= Head(s) /\ Head(s) < hi THEN <<Head(s)>> ELSE <<>>) \o
       Filter(Tail(s), lo, hi)

\* C2: after any sequence of insert(v) calls on an ordered sequence, range(0,
\* total_count) is non-decreasing and is the sorted multiset of the inserted
\* values: nothing lost, nothing duplicated
C2_OrderedIsSortedMultiset ==
  LET c == Content(olist, store)
  IN  /\ olist.totalCount = Len(inserted)
      /\ NonDecreasing(c)
      /\ c = inserted

\* C2 witness: a value arrived out of order (it was placed before the end), there
\* are duplicates and splits have happened
C2_Witness ==
  /\ Len(inserted) = MaxOrderedInserts
  /\ out.op = "insert" /\ out.value < Len(inserted) - 1
  /\ \E k \in 1..Len(inserted) : CountOf(inserted, inserted[k]) >= 2
  /\ Len(olist.segments) >= 2

\* C3: scan(lo, hi) returns exactly the sub-sequence of range(0, total_count) of
\* the elements x with lo <= x < hi, in order
C3_ScanHalfOpen ==
  out.op = "scan" => out.value = Filter(Content(olist, store), out.lo, out.hi)

\* C3 witness: duplicates of lo lie in several segments and are all returned while
\* elements equal to hi exist and are left out
C3_Witness ==
  /\ out.op = "scan"
  /\ out.lo < out.hi
  /\ CountOf(inserted, out.hi) >= 1
  /\ Cardinality({i \in 1..Len(olist.segments) :
        \E k \in 1..Len(olist.segmentArrays[olist.segments[i].ref]) :
          olist.segmentArrays[olist.segments[i].ref][k] = out.lo}) >= 2
  /\ CountOf(out.value, out.lo) = CountOf(inserted, out.lo)

\* C4: insert(v) returns the number of previously inserted elements less than v,
\* and get(returned position) right after the call is v
C4_InsertReturnsLowerBound ==
  /\ out.op = "insert" =>
       out.value = CountLess(inserted, out.v)
  /\ out.op = "getInserted" => out.value = out.v

\* C4 witness: a duplicate was inserted into content spread over segments and
\* landed before its equals, behind smaller elements
C4_Witness ==
  /\ out.op = "insert"
  /\ CountOf(inserted, out.v) >= 2
  /\ out.value >= 1
  /\ Len(olist.segments) >= 2

\* C5: getIndex(v) returns the number of stored elements less than v, for every v
C5_GetIndexLowerBound ==
  out.op = "getIndex" => out.value = CountLess(inserted, out.v)

\* C5 witness: getIndex of an absent value between stored values, with the
\* content in several segments
C5_Witness ==
  /\ out.op = "getIndex"
  /\ CountOf(inserted, out.v) = 0
  /\ out.value >= 1 /\ out.value < Len(inserted)
  /\ Len(olist.segments) >= 2

\* C29: after every ordered insert has returned, every segment's min is the
\* first and its max the last element of its sorted content, and for adjacent
\* segments max(s_i) <= min(s_{i+1})
C29_OrderedSegmentBounds ==
  /\ \A k \in 1..Len(olist.segments) :
       LET seg == olist.segments[k]
           arr == olist.segmentArrays[seg.ref]
       IN  /\ Len(arr) >= 1
           /\ NonDecreasing(arr)
           /\ seg.min = arr[1]
           /\ seg.max = arr[Len(arr)]
  /\ \A k \in 1..(Len(olist.segments) - 1) :
       olist.segments[k].max <= olist.segments[k + 1].min

\* C29 witness: an insert has returned position 0 for a value that became the
\* min of the first segment, a later segment holds different values, and splits
\* have happened
C29_Witness ==
  /\ out.op = "insert" /\ out.value = 0
  /\ Len(inserted) >= 3
  /\ Len(olist.segments) >= 2
  /\ olist.segments[1].min = out.v
  /\ out.v < inserted[2]
  /\ \E k \in 2..Len(olist.segments) : olist.segments[k].min < olist.segments[k].max

(* ---- specification SpecPersist: a FenwickList under insertAt and flush ---- *)
InitPersist ==
  /\ \E s \in 1..MaxSegmentCount, c \in 0..MaxChunkCount :
       list = NewSequence("list", s, c, <<>>, <<>>)
  /\ ref = <<>>
  /\ out = NoCall
  /\ OrderedUnused /\ StoreEmpty /\ TableUnused

\* insertAt as in SpecList; the record of the last flush is dropped
PersistInsertAt ==
  /\ Len(ref) < MaxPersistInserts
  /\ \E i \in 0..Len(ref) :
       /\ list' = insertAt(list, store, i, Len(ref) + 1)
       /\ ref' = RefInsert(ref, i, Len(ref) + 1)
       /\ out' = [op |-> "insertAt", index |-> i]
  /\ lastFlush' = [NoFlush EXCEPT !.n = lastFlush.n]
  /\ UNCHANGED <<orderedVars, store, clock, tracing, tableVars>>

\* flush() with a working store; lastFlush keeps the sequence, the store and the
\* clock as they were before, out the returned keys and the call that preceded
Flush ==
  /\ lastFlush.n < MaxFlushes
  /\ \E g \in {flush(list, store, clock, {})} :
       /\ list' = g.l
       /\ store' = g.store
       /\ clock' = g.clock
       /\ out' = [op |-> "flush", keys |-> g.keys, after |-> out.op]
  /\ lastFlush' = [done |-> TRUE, n |-> lastFlush.n + 1, pre |-> list,
                   preStore |-> store, preClock |-> clock]
  /\ UNCHANGED <<ref, orderedVars, tracing, tableVars>>

NextPersist == PersistInsertAt \/ Flush

SpecPersist == InitPersist /\ [][NextPersist]_vars

\* C7: after insertAt calls interleaved with flushes and ending with a flush, a
\* sequence constructed from the meta against the same store returns from
\* range(0, N) what the flushed sequence returns
C7_RoundTrip ==
  out.op = "flush" =>
    Content(Rehydrate(list), store) = Content(list, store)

\* C18: a flush() issued when no segment is dirty (on an empty sequence, or
\* directly after a flush that resolved) performs no store.set, leaves chunks and
\* all other state of the sequence unchanged, and returns an empty key list
C18_FlushIdempotent ==
  (out.op = "flush" /\ (out.after = "flush" \/ Len(ref) = 0)) =>
    /\ out.keys = {}
    /\ store = lastFlush.preStore
    /\ clock = lastFlush.preClock
    /\ list = lastFlush.pre

\* C18 witness: a flush directly after a flush that wrote chunks of a sequence
\* of several segments
C18_Witness ==
  /\ out.op = "flush" /\ out.after = "flush"
  /\ Len(list.segments) >= 2
  /\ store # EmptyStore
  /\ list.dirty = {}

\* meta.chunks[c], NoKey when absent
KeyAt(chunks, c) == IF c + 1 <= Len(chunks) THEN chunks[c + 1] ELSE NoKey

\* the blob committed under key, as a chunk of size slots (no key: empty slots)
CommittedChunk(st, key, size) ==
  PadChunk(IF key # NoKey /\ key \in DOMAIN st THEN st[key] ELSE <<>>, size)

\* C8: when the dirty segments of a flush all lie in chunk c, the flush records at
\* chunks[c] a key different from the previous one, leaves every other entry of
\* chunks unchanged, and the blob under the new key holds the current content of
\* the dirty slots and, for every other slot of chunk c, the content that slot had
\* in the previously committed blob
C8_CopyOnWrite ==
  (out.op = "flush" /\ lastFlush.done /\ Cardinality(ChangedChunks(lastFlush.pre)) = 1) =>
    LET pre == lastFlush.pre
        size == effectiveChunkSize(pre)
        c == CHOOSE x \in ChangedChunks(pre) : TRUE
        oldKey == KeyAt(pre.chunks, c)
        newKey == KeyAt(list.chunks, c)
        old == CommittedChunk(store, oldKey, size)
    IN  /\ newKey # NoKey /\ newKey # oldKey
        /\ \A k \in 0..Max2(Len(list.chunks), Len(pre.chunks)) :
             k # c => KeyAt(list.chunks, k) = KeyAt(pre.chunks, k)
        /\ newKey \in DOMAIN store
        /\ Len(store[newKey]) = size
        /\ \A p \in 0..(size - 1) :
             LET idx == c * size + p
             IN  IF idx < Len(pre.segments) /\ pre.segments[idx + 1].ref \in pre.dirty
                   THEN store[newKey][p + 1] = pre.segmentArrays[pre.segments[idx + 1].ref]
                   ELSE store[newKey][p + 1] = old[p + 1]

\* C8 witness: a flush whose dirty segments lie in one chunk that was committed
\* before and has a non-empty slot that is not dirty
C8_Witness ==
  /\ out.op = "flush" /\ lastFlush.done
  /\ Cardinality(ChangedChunks(lastFlush.pre)) = 1
  /\ LET pre == lastFlush.pre
         size == effectiveChunkSize(pre)
         c == CHOOSE x \in ChangedChunks(pre) : TRUE
     IN  /\ KeyAt(pre.chunks, c) # NoKey
         /\ \E p \in 0..(size - 1) :
              /\ c * size + p < Len(pre.segments)
              /\ pre.segments[c * size + p + 1].ref \notin pre.dirty
              /\ CommittedChunk(store, KeyAt(pre.chunks, c), size)[p + 1] # <<>>
              /\ store[KeyAt(list.chunks, c)][p + 1] # <<>>

(* ---- specification SpecRetry: a FenwickList under insertAt and flush with a
        store whose set may reject ---- *)
InitRetry ==
  /\ \E s \in 1..MaxSegmentCount, c \in 1..MaxChunkCount :
       list = NewSequence("list", s, c, <<>>, <<>>)
  /\ ref = <<>>
  /\ out = NoCall
  /\ OrderedUnused /\ StoreEmpty /\ TableUnused

RetryInsertAt ==
  /\ Len(ref) < MaxRetryInserts
  /\ \E i \in 0..Len(ref) :
       /\ list' = insertAt(list, store, i, Len(ref) + 1)
       /\ ref' = RefInsert(ref, i, Len(ref) + 1)
       /\ out' = [op |-> "insertAt", index |-> i]
  /\ UNCHANGED <<orderedVars, storeVars, tableVars>>

\* flush() while store.set rejects for the chunks in failing, one or more of the
\* chunks the flush writes; the tasks of the other chunks commit. out keeps the
\* dirty set as the call found it and the chunks that were committed
RetryFlushRejected ==
  /\ lastFlush.n < MaxRetryFlushes
  /\ out.op # "flushRejected"
  /\ \E failing \in SUBSET ChangedChunks(list) \ {{}} :
       \E g \in {flush(list, store, clock, failing)} :
         /\ list' = g.l
         /\ store' = g.store
         /\ clock' = g.clock
         /\ out' = [op |-> "flushRejected", ok |-> g.ok, preDirty |-> list.dirty,
                    committed |-> ChangedChunks(list) \ failing]
  /\ lastFlush' = [lastFlush EXCEPT !.n = @ + 1]
  /\ UNCHANGED <<ref, orderedVars, tracing, tableVars>>

\* flush() with a working store; after tells what preceded it
RetryFlush ==
  /\ lastFlush.n < MaxRetryFlushes
  /\ list.dirty # {}
  /\ \E g \in {flush(list, store, clock, {})} :
       /\ list' = g.l
       /\ store' = g.store
       /\ clock' = g.clock
       /\ out' = [op |-> "flush", ok |-> g.ok, after |-> out.op]
  /\ lastFlush' = [done |-> TRUE, n |-> lastFlush.n + 1]
  /\ UNCHANGED <<ref, orderedVars, tracing, tableVars>>

NextRetry == RetryInsertAt \/ RetryFlushRejected \/ RetryFlush

SpecRetry == InitRetry /\ [][NextRetry]_vars

\* C31: a flush during which the store rejects is rejected and leaves the dirty
\* set exactly as it was, also when other chunks of the same flush were
\* committed; a later flush with a working store persists every dirty segment, so
\* that a sequence rehydrated from the meta shows the full in-memory content
C31_FlushRetrySafe ==
  /\ out.op = "flushRejected" => ~out.ok /\ list.dirty = out.preDirty
  /\ (out.op = "flush" /\ out.after = "flushRejected") =>
       /\ out.ok /\ list.dirty = {}
       /\ Content(list, store) = ref
       /\ Content(Rehydrate(list), store) = ref

(* ---- specification SpecSetMeta: a FenwickList under insertAt, flush and
        setMeta with a meta snapshot taken after an earlier flush ---- *)
\* the sum of the counts of segments [0, k)
RECURSIVE SumCounts(_, _)
SumCounts(segments, k) ==
  IF k = 0 THEN 0 ELSE segments[k].count + SumCounts(segments, k - 1)

\* setMeta(meta) with a meta whose segment descriptors are objects of their own
\* (a snapshot that was copied or read back): this.meta is replaced, total_count,
\* the Fenwick tree and the index map are derived from it; the working arrays,
\* the chunk cache and the dirty set are not touched. The working arrays and the
\* dirty set are keyed by the earlier segment objects, the chunk cache by chunk
\* index
setMeta(l, m) ==
  LET segs == [i \in 1..Len(m.segments) |->
                 [m.segments[i] EXCEPT !.ref = l.nextRef + i - 1]]
  IN  [l EXCEPT !.segmentCount = m.segmentCount,
                !.chunkCount = m.chunkCount,
                !.segments = segs,
                !.chunks = m.chunks,
                !.totalCount = SumCounts(segs, Len(segs)),
                !.fenwick = buildFenwick(segs),
                !.nextRef = @ + Len(segs)]

\* lastFlush.meta is a deep copy of the meta taken after a flush, kept as the
\* sequence a constructor makes of it; lastFlush.content is the content of the
\* sequence at that flush
InitSetMeta ==
  /\ \E s \in 1..MaxSegmentCount, c \in 1..MaxChunkCount :
       list = NewSequence("list", s, c, <<>>, <<>>)
  /\ ref = <<>>
  /\ out = NoCall
  /\ OrderedUnused /\ StoreEmpty /\ TableUnused

MetaInsertAt ==
  /\ out.op # "setMeta"
  /\ Len(ref) < MaxMetaInserts
  /\ \E i \in 0..Len(ref) :
       /\ list' = insertAt(list, store, i, Len(ref) + 1)
       /\ ref' = RefInsert(ref, i, Len(ref) + 1)
       /\ out' = [op |-> "insertAt", index |-> i]
  /\ UNCHANGED <<orderedVars, storeVars, tableVars>>

\* flush(); the caller copies the meta after the first flush, and after a later
\* one or not
MetaFlush ==
  /\ out.op # "setMeta"
  /\ lastFlush.n < MaxMetaFlushes
  /\ list.dirty # {}
  /\ \E g \in {flush(list, store, clock, {})} :
       /\ list' = g.l
       /\ store' = g.store
       /\ clock' = g.clock
       /\ out' = [op |-> "flush", keys |-> g.keys]
       /\ \E copy \in (IF lastFlush.done THEN {TRUE, FALSE} ELSE {TRUE}) :
            lastFlush' = [done |-> TRUE, n |-> lastFlush.n + 1,
                          meta |-> IF copy THEN Rehydrate(g.l) ELSE lastFlush.meta,
                          content |-> IF copy THEN ref ELSE lastFlush.content]
  /\ UNCHANGED <<ref, orderedVars, tracing, tableVars>>

\* setMeta(m) with the copied meta on the sequence as it is now
SetMeta ==
  /\ out.op # "setMeta"
  /\ lastFlush.done
  /\ list' = setMeta(list, lastFlush.meta)
  /\ out' = [op |-> "setMeta", before |-> out.op]
  /\ UNCHANGED <<ref, orderedVars, storeVars, tableVars>>

NextSetMeta == MetaInsertAt \/ MetaFlush \/ SetMeta

SpecSetMeta == InitSetMeta /\ [][NextSetMeta]_vars

\* C32: after setMeta(m) on a sequence that has loaded, modified or flushed data,
\* total_count and the Fenwick tree are derived from m and every get and range
\* returns what a freshly constructed sequence with meta m against the same store
\* returns
C32_SetMetaResets ==
  out.op = "setMeta" =>
    LET fresh == lastFlush.meta
    IN  /\ list.totalCount = fresh.totalCount
        /\ list.fenwick = fresh.fenwick
        /\ Content(list, store) = Content(fresh, store)
        /\ \A i \in 0..fresh.totalCount :
             get(list, store, i).value = get(fresh, store, i).value

\* every blob in the store stays as it was written
BlobsKept == \A k \in DOMAIN store : k \in DOMAIN store' /\ store'[k] = store[k]

\* the keys of the chunks list
ChunkKeys(l) == {l.chunks[i] : i \in 1..Len(l.chunks)} \ {NoKey}

\* C34: chunk blobs are immutable once written: a flush calls store.set only with
\* keys that are neither in the chunks list nor written by an earlier flush, and
\* a deep copy of the meta taken right after a flush rehydrates to the content of
\* that flush after any later inserts and flushes
C34_BlobsImmutable ==
  /\ [][/\ BlobsKept
        /\ (DOMAIN store' \ DOMAIN store) \cap ChunkKeys(list) = {}]_vars
  /\ [](lastFlush.done => Content(lastFlush.meta, store) = lastFlush.content)

(* ---- specification SpecShare: a FenwickList A under insertAt and flush, a
        second FenwickList B constructed from A.getMeta(), then inserts and
        flushes through one of the two ---- *)
\* new FenwickList(store, meta) with the object another instance returned from
\* getMeta(): getMeta returns this.meta itself and getDefaults spreads it one
\* level deep, so the new instance holds the segments array, the descriptors in
\* it and the chunks array of the other instance; the count, the tree, the
\* working arrays, the chunk cache and the dirty set are its own. list holds A,
\* olist holds B; ref and inserted are the values inserted through each
ConstructFromMeta(a) ==
  [NewSequence("list", a.segmentCount, a.chunkCount, a.segments, a.chunks)
     EXCEPT !.nextRef = a.nextRef]

\* what the instance peer sees after a call on the instance l: the segments
\* array, its descriptors and the chunks array are the same objects
SharedMeta(peer, l) ==
  [peer EXCEPT !.segments = l.segments, !.chunks = l.chunks, !.nextRef = l.nextRef]

Constructed == olist.kind = "list"

InitShare ==
  /\ \E s \in 1..MaxSegmentCount, c \in 1..MaxChunkCount :
       list = NewSequence("list", s, c, <<>>, <<>>)
  /\ ref = <<>>
  /\ out = NoCall
  /\ OrderedUnused /\ StoreEmpty /\ TableUnused

\* A.insertAt(i, v) before B exists
ShareInsertAt ==
  /\ ~Constructed
  /\ Len(ref) < MaxShareInserts
  /\ \E i \in 0..Len(ref) :
       /\ list' = insertAt(list, store, i, Len(ref) + 1)
       /\ ref' = RefInsert(ref, i, Len(ref) + 1)
       /\ out' = [op |-> "insertAt", on |-> "A", index |-> i]
  /\ UNCHANGED <<orderedVars, storeVars, tableVars>>

\* A.flush() before B exists
ShareFlush ==
  /\ ~Constructed
  /\ lastFlush.n < MaxShareFlushes
  /\ list.dirty # {}
  /\ \E g \in {flush(list, store, clock, {})} :
       /\ list' = g.l
       /\ store' = g.store
       /\ clock' = g.clock
       /\ out' = [op |-> "flush", on |-> "A"]
  /\ lastFlush' = [done |-> TRUE, n |-> lastFlush.n + 1]
  /\ UNCHANGED <<ref, orderedVars, tracing, tableVars>>

\* B = new FenwickList(store, A.getMeta())
ConstructB ==
  /\ ~Constructed
  /\ Len(list.segments) > 0
  /\ olist' = ConstructFromMeta(list)
  /\ out' = [op |-> "construct", on |-> "B"]
  /\ UNCHANGED <<listVars, inserted, storeVars, tableVars>>

\* the instance a call after the construction goes to: all of them go to the
\* same one, the other one is only observed
Target(on) ==
  /\ Constructed
  /\ out.op = "construct" \/ out.on = on

\* B.insertAt(i, v); out.peer is A before the call
PeerInsertAtB ==
  /\ Target("B")
  /\ Len(inserted) < MaxPeerInserts
  /\ \E i \in 0..olist.totalCount :
       \E b \in {insertAt(olist, store, i, Len(ref) + Len(inserted) + 1)} :
         /\ olist' = b
         /\ list' = SharedMeta(list, b)
         /\ out' = [op |-> "insertAt", on |-> "B", index |-> i, peer |-> list]
  /\ inserted' = Append(inserted, Len(ref) + Len(inserted) + 1)
  /\ UNCHANGED <<ref, storeVars, tableVars>>

\* A.insertAt(i, v) after the construction; out.peer is B before the call
PeerInsertAtA ==
  /\ Target("A")
  /\ Len(inserted) < MaxPeerInserts
  /\ \E i \in 0..list.totalCount :
       \E a \in {insertAt(list, store, i, Len(ref) + Len(inserted) + 1)} :
         /\ list' = a
         /\ olist' = SharedMeta(olist, a)
         /\ out' = [op |-> "insertAt", on |-> "A", index |-> i, peer |-> olist]
  /\ inserted' = Append(inserted, Len(ref) + Len(inserted) + 1)
  /\ UNCHANGED <<ref, storeVars, tableVars>>

\* B.flush(); out.peer is A before the call
PeerFlushB ==
  /\ Target("B")
  /\ lastFlush.n < MaxShareFlushes
  /\ olist.dirty # {}
  /\ \E g \in {flush(olist, store, clock, {})} :
       /\ olist' = g.l
       /\ list' = SharedMeta(list, g.l)
       /\ store' = g.store
       /\ clock' = g.clock
       /\ out' = [op |-> "flush", on |-> "B", peer |-> list]
  /\ lastFlush' = [done |-> TRUE, n |-> lastFlush.n + 1]
  /\ UNCHANGED <<ref, inserted, tracing, tableVars>>

\* A.flush() after the construction; out.peer is B before the call
PeerFlushA ==
  /\ Target("A")
  /\ lastFlush.n < MaxShareFlushes
  /\ list.dirty # {}
  /\ \E g \in {flush(list, store, clock, {})} :
       /\ list' = g.l
       /\ olist' = SharedMeta(olist, g.l)
       /\ store' = g.store
       /\ clock' = g.clock
       /\ out' = [op |-> "flush", on |-> "A", peer |-> olist]
  /\ lastFlush' = [done |-> TRUE, n |-> lastFlush.n + 1]
  /\ UNCHANGED <<ref, inserted, tracing, tableVars>>

NextShare ==
  \/ ShareInsertAt \/ ShareFlush \/ ConstructB
  \/ PeerInsertAtB \/ PeerInsertAtA \/ PeerFlushB \/ PeerFlushA

SpecShare == InitShare /\ [][NextShare]_vars

\* the last call went to one instance while the other one existed
PeerCall == Constructed /\ out.op \in {"insertAt", "flush"}

\* C33: two sequence instances share neither segment descriptors nor the
\* chunk-key list: after B is constructed from A.getMeta(), an insert or a flush
\* on B changes neither the segment counts of A nor the chunks list of A, and the
\* same holds with A and B exchanged
C33_ExclusiveOwnership ==
  PeerCall =>
    LET peer == IF out.on = "B" THEN list ELSE olist
    IN  /\ peer.segments = out.peer.segments
        /\ peer.chunks = out.peer.chunks

(* ---- specification SpecCache: a FenwickList under insertAt, an in-place
        overwrite, flush, a drop of the in-memory caches and get ---- *)
\* segmentCache.clear(): the working arrays and the chunk cache are dropped; the
\* segment list, the counts, the Fenwick tree and the dirty set stay
segmentCacheClear(l) == [l EXCEPT !.segmentArrays = <<>>, !.chunkCache = <<>>]

\* the value the test writes in place
Overwritten == 999

\* setValueByIndex(index, value) of the test subclass, called for an index whose
\* segment is loaded: arr[localIndex] = value, and the segment is marked dirty
setValueByIndex(l, index, value) ==
  LET f == findByIndex(l, index)
      r == l.segments[f.segIndex + 1].ref
  IN  [l EXCEPT !.segmentArrays[r] = [@ EXCEPT ![f.localIndex + 1] = value],
                !.dirty = @ \cup {r}]

\* ref is the content as of the last flush; lastFlush.n counts the flushes
InitCache ==
  /\ \E s \in 1..MaxSegmentCount, c \in 1..MaxChunkCount :
       list = NewSequence("list", s, c, <<>>, <<>>)
  /\ ref = <<>>
  /\ out = NoCall
  /\ OrderedUnused /\ StoreEmpty /\ TableUnused

\* insertAt(i, v); out keeps the chunk cache and the store as they were
CacheInsertAt ==
  /\ list.totalCount < MaxCacheInserts
  /\ \E i \in 0..list.totalCount :
       list' = insertAt(list, store, i, list.totalCount + 1)
  /\ out' = [op |-> "insertAt", preCache |-> list.chunkCache, preStore |-> store]
  /\ UNCHANGED <<ref, orderedVars, storeVars, tableVars>>

\* setValueByIndex(k, 999) after a get(k) that returned a value, as in the test
CacheOverwrite ==
  /\ out.op = "get" /\ out.value # Undefined
  /\ list' = setValueByIndex(list, out.index, Overwritten)
  /\ out' = [op |-> "overwrite", preCache |-> list.chunkCache, preStore |-> store]
  /\ UNCHANGED <<ref, orderedVars, storeVars, tableVars>>

\* flush() with a working store; ref becomes the content the sequence shows
CacheFlush ==
  /\ lastFlush.n < MaxCacheFlushes
  /\ list.dirty # {}
  /\ \E g \in {flush(list, store, clock, {})} :
       /\ list' = g.l
       /\ store' = g.store
       /\ clock' = g.clock
       /\ out' = [op |-> "flush", keys |-> g.keys]
  /\ ref' = Content(list, store)
  /\ lastFlush' = [done |-> TRUE, n |-> lastFlush.n + 1]
  /\ UNCHANGED <<orderedVars, tracing, tableVars>>

\* the caches are dropped
CacheClear ==
  /\ out.op \in {"insertAt", "overwrite", "flush"}
  /\ list' = segmentCacheClear(list)
  /\ out' = [op |-> "clear", after |-> out.op]
  /\ UNCHANGED <<ref, orderedVars, storeVars, tableVars>>

\* get(k); dropped tells that the caches were dropped right before the call
CacheGet ==
  /\ ~IsQuery(out)
  /\ \E k \in 0..Len(ref) :
       \E g \in {get(list, store, k)} :
         /\ list' = g.l
         /\ out' = [op |-> "get", index |-> k, value |-> g.value,
                    dropped |-> out.op = "clear"]
  /\ UNCHANGED <<ref, orderedVars, storeVars, tableVars>>

NextCache == CacheInsertAt \/ CacheOverwrite \/ CacheFlush \/ CacheClear \/ CacheGet

SpecCache == InitCache /\ [][NextCache]_vars

\* C30: a mutation of a loaded working array, by insertAt or by an in-place
\* overwrite, without a flush changes neither a slot of the chunk cache nor a
\* stored blob, and after the in-memory caches are dropped reads return the
\* values of the last successful flush
C30_NoAliasing ==
  /\ out.op \in {"insertAt", "overwrite"} =>
       /\ store = out.preStore
       /\ \A c \in DOMAIN out.preCache :
            c \in DOMAIN list.chunkCache /\ list.chunkCache[c] = out.preCache[c]
  /\ (out.op = "get" /\ out.dropped /\ lastFlush.done) =>
       out.value = IF out.index < Len(ref) THEN ref[out.index + 1] ELSE Undefined

(* ---- specification SpecLoad: range on a sequence whose segments are all cold,
        with a store that counts its gets ---- *)
\* tracing.pc is "build" (the sequence is filled), "flushed", "cold" (a sequence
\* constructed from the meta, nothing loaded, counters reset), "loading" (range
\* awaits Promise.all) or "done"; pending holds the segment indexes whose
\* ensureSegmentLoaded awaits a store get
InitLoad ==
  /\ \E s \in 1..MaxSegmentCount, c \in 0..MaxChunkCount :
       list = NewSequence("list", s, c, <<>>, <<>>)
  /\ ref = <<>>
  /\ out = NoCall
  /\ store = EmptyStore /\ clock = 0 /\ lastFlush = NoFlush
  /\ tracing = [NoTracing EXCEPT !.pc = "build"]
  /\ OrderedUnused /\ TableUnused

LoadInsertAt ==
  /\ tracing.pc \in {"build", "flushed"}
  /\ Len(ref) < MaxLoadInserts
  /\ \E i \in 0..Len(ref) :
       /\ list' = insertAt(list, store, i, Len(ref) + 1)
       /\ ref' = RefInsert(ref, i, Len(ref) + 1)
       /\ out' = [op |-> "insertAt", index |-> i]
  /\ tracing' = [tracing EXCEPT !.pc = "build"]
  /\ UNCHANGED <<orderedVars, store, clock, lastFlush, tableVars>>

\* a flush() that follows inserts; lastFlush.n counts the flushes
LoadFlush ==
  /\ tracing.pc = "build"
  /\ Len(ref) >= 1
  /\ lastFlush.n < MaxFlushes
  /\ \E g \in {flush(list, store, clock, {})} :
       /\ list' = g.l
       /\ store' = g.store
       /\ clock' = g.clock
       /\ out' = [op |-> "flush", keys |-> g.keys, after |-> out.op]
  /\ tracing' = [tracing EXCEPT !.pc = "flushed"]
  /\ lastFlush' = [lastFlush EXCEPT !.n = @ + 1]
  /\ UNCHANGED <<ref, orderedVars, tableVars>>

\* new FenwickList(store, list.getMeta()) and store.reset()
Reopen ==
  /\ tracing.pc = "flushed"
  /\ list' = Rehydrate(list)
  /\ tracing' = [NoTracing EXCEPT !.pc = "cold"]
  /\ out' = [op |-> "reopen"]
  /\ UNCHANGED <<ref, orderedVars, store, clock, lastFlush, tableVars>>

\* TracingStore.get up to its await: the counters of one get that begins
BeginGet(t) ==
  [t EXCEPT !.totalGets = @ + 1,
            !.activeGets = @ + 1,
            !.maxActiveGets = Max2(@, t.activeGets + 1)]

\* the calls ensureSegmentLoaded(s) that range makes for segments from..to, each
\* run up to its first await, in order: a segment with a working array needs
\* nothing; a cached chunk needs no get; a chunk without a key is cached as empty
\* at once; any other chunk is asked from the store and the call awaits the get.
\* l is the sequence, t the counters with the awaiting calls in pending
RECURSIVE StartLoads(_, _, _, _, _)
StartLoads(l, st, t, from, to) ==
  IF from > to \/ from + 1 > Len(l.segments) THEN [l |-> l, t |-> t]
  ELSE LET r == l.segments[from + 1].ref
           cidx == from \div effectiveChunkSize(l)
           key == IF cidx + 1 <= Len(l.chunks) THEN l.chunks[cidx + 1] ELSE NoKey
       IN  IF r \in DOMAIN l.segmentArrays \/ cidx \in DOMAIN l.chunkCache
             THEN StartLoads(l, st, t, from + 1, to)
           ELSE IF key = NoKey
             THEN StartLoads(getOrLoadChunk(l, st, cidx), st, t, from + 1, to)
           ELSE StartLoads(l, st, [BeginGet(t) EXCEPT !.pending = @ \cup {from}],
                           from + 1, to)

\* the calls of StartLoads that await no store get run to their end
RECURSIVE FinishLoads(_, _, _, _, _)
FinishLoads(l, st, pending, from, to) ==
  IF from > to \/ from + 1 > Len(l.segments) THEN l
  ELSE IF from \in pending THEN FinishLoads(l, st, pending, from + 1, to)
  ELSE TheOne({FinishLoads(l1, st, pending, from + 1, to) :
                 l1 \in {ensureSegmentLoaded(l, st, l.segments[from + 1].ref)}})

\* range(minIndex, maxIndex) is called on the cold sequence: it returns at once
\* on an empty interval, else it starts ensureSegmentLoaded for every segment of
\* the interval and awaits Promise.all
RangeStart ==
  /\ tracing.pc = "cold"
  /\ \E minIndex \in 0..Len(ref), maxIndex \in 0..(Len(ref) + 1) :
       LET a == Max2(0, minIndex)
           b == ClampEnd(maxIndex, list.totalCount)
       IN  IF list.totalCount = 0 \/ maxIndex <= a \/ a >= list.totalCount
             THEN /\ list' = list
                  /\ tracing' = [tracing EXCEPT !.pc = "done"]
                  /\ out' = [op |-> "range", minIndex |-> minIndex,
                             maxIndex |-> maxIndex, value |-> <<>>,
                             touched |-> 0, chunks |-> 0]
           ELSE \E f \in {findByIndex(list, a)}, e \in {findByIndex(list, b - 1)} :
                  \E g \in {StartLoads(list, store, tracing, f.segIndex, e.segIndex)} :
                    /\ list' = FinishLoads(g.l, store, g.t.pending,
                                           f.segIndex, e.segIndex)
                    /\ tracing' = [g.t EXCEPT !.pc = "loading"]
                    /\ out' = [op |-> "rangeCall", minIndex |-> minIndex,
                               maxIndex |-> maxIndex, a |-> a, b |-> b,
                               segIndex |-> f.segIndex, localIndex |-> f.localIndex,
                               endSegIndex |-> e.segIndex]
  /\ UNCHANGED <<ref, orderedVars, store, clock, lastFlush, tableVars>>

\* one store get resolves: getOrLoadChunk caches the chunk it received and the
\* awaiting ensureSegmentLoaded takes its working copy
GetSettles ==
  /\ tracing.pc = "loading"
  /\ \E i \in tracing.pending :
       /\ list' = ensureSegmentLoaded(list, store, list.segments[i + 1].ref)
       /\ tracing' = [tracing EXCEPT !.pending = @ \ {i}, !.activeGets = @ - 1]
  /\ UNCHANGED <<ref, out, orderedVars, store, clock, lastFlush, tableVars>>

\* Promise.all resolved: the collecting loop runs and range returns. touched is
\* the number of segments of the interval, chunks the number of distinct chunks
\* that hold them
RangeFinish ==
  /\ tracing.pc = "loading"
  /\ tracing.pending = {}
  /\ \E g \in {RangeLoop(list, out.segIndex, out.localIndex, out.b - out.a, <<>>)} :
       /\ list' = g.l
       /\ out' = [op |-> "range", minIndex |-> out.minIndex,
                  maxIndex |-> out.maxIndex, value |-> g.value,
                  touched |-> out.endSegIndex - out.segIndex + 1,
                  chunks |-> Cardinality({i \div effectiveChunkSize(list) :
                                            i \in out.segIndex..out.endSegIndex})]
  /\ tracing' = [tracing EXCEPT !.pc = "done"]
  /\ UNCHANGED <<ref, orderedVars, store, clock, lastFlush, tableVars>>

NextLoad ==
  LoadInsertAt \/ LoadFlush \/ Reopen \/ RangeStart \/ GetSettles \/ RangeFinish

SpecLoad == InitLoad /\ [][NextLoad]_vars

\* total_count is the sum of the segment counts, and every prefix sum of the
\* tree is the sum of the counts before it
CountInvariant(l) ==
  /\ l.totalCount = SumCounts(l.segments, Len(l.segments))
  /\ \A k \in 0..Len(l.segments) : prefixSum(l, k) = SumCounts(l.segments, k)

\* C22: whenever a public operation of a sequence has returned (insertAt, flush,
\* a range that loads cold segments of a rehydrated sequence), total_count
\* equals the sum of all segment counts and prefixSum(number of segments), and
\* for every k prefixSum(k) equals the sum of the counts of segments [0, k)
C22_CountInvariant ==
  tracing.pc # "loading" => CountInvariant(list)

\* C20: on a sequence whose segments are all cold, a range that touches K >= 2
\* segments has more than one store get in flight at its peak, and the number of
\* store gets it issues is the number of distinct chunks touched, for every
\* chunkCount
C20_NoReadWaterfall ==
  (tracing.pc = "done" /\ out.op = "range" /\ out.touched >= 2) =>
    /\ tracing.maxActiveGets > 1
    /\ tracing.totalGets = out.chunks

(* ---- specification SpecInsertLoad: one insertAt or insert on a sequence whose
        segments are all cold, with a store that counts its gets ---- *)
\* out.kind tells which sequence the behaviour is about: list (indexed) or olist
\* (ordered); tracing.pc is "build", "flushed", "cold", "loading" (the insert
\* awaits ensureSegmentLoaded) or "done"
Traced == IF out.kind = "list" THEN list ELSE olist

InitInsertLoad ==
  /\ \E s \in 1..MaxSegmentCount, c \in 0..MaxChunkCount, k \in {"list", "ordered"} :
       /\ list = NewSequence("list", IF k = "list" THEN s ELSE 1,
                             IF k = "list" THEN c ELSE 1, <<>>, <<>>)
       /\ olist = NewSequence("ordered", IF k = "ordered" THEN s ELSE 1,
                              IF k = "ordered" THEN c ELSE 1, <<>>, <<>>)
       /\ out = [op |-> "new", kind |-> k]
  /\ ref = <<>> /\ inserted = <<>>
  /\ store = EmptyStore /\ clock = 0 /\ lastFlush = NoFlush
  /\ tracing = [NoTracing EXCEPT !.pc = "build"]
  /\ TableUnused

ColdInsertAt ==
  /\ out.kind = "list"
  /\ tracing.pc \in {"build", "flushed"}
  /\ Len(ref) < MaxColdInserts
  /\ \E i \in 0..Len(ref) :
       /\ list' = insertAt(list, store, i, Len(ref) + 1)
       /\ ref' = RefInsert(ref, i, Len(ref) + 1)
  /\ out' = [op |-> "insertAt", kind |-> out.kind]
  /\ tracing' = [tracing EXCEPT !.pc = "build"]
  /\ UNCHANGED <<orderedVars, store, clock, lastFlush, tableVars>>

ColdInsert ==
  /\ out.kind = "ordered"
  /\ tracing.pc \in {"build", "flushed"}
  /\ Len(inserted) < MaxColdInserts
  /\ \E v \in 1..MaxValue :
       /\ olist' = insert(olist, store, v).l
       /\ inserted' = SortedInsert(inserted, v)
  /\ out' = [op |-> "insert", kind |-> out.kind]
  /\ tracing' = [tracing EXCEPT !.pc = "build"]
  /\ UNCHANGED <<listVars, store, clock, lastFlush, tableVars>>

\* flush() of the sequence after inserts
ColdFlush ==
  /\ tracing.pc = "build"
  /\ Traced.dirty # {}
  /\ lastFlush.n < MaxColdFlushes
  /\ \E g \in {flush(Traced, store, clock, {})} :
       /\ list' = IF out.kind = "list" THEN g.l ELSE list
       /\ olist' = IF out.kind = "ordered" THEN g.l ELSE olist
       /\ store' = g.store
       /\ clock' = g.clock
  /\ out' = [op |-> "flush", kind |-> out.kind]
  /\ tracing' = [tracing EXCEPT !.pc = "flushed"]
  /\ lastFlush' = [lastFlush EXCEPT !.n = @ + 1]
  /\ UNCHANGED <<ref, inserted, tableVars>>

\* the sequence is constructed anew from its meta and the counters are reset
ColdReopen ==
  /\ tracing.pc = "flushed"
  /\ list' = IF out.kind = "list" THEN Rehydrate(list) ELSE list
  /\ olist' = IF out.kind = "ordered" THEN Rehydrate(olist) ELSE olist
  /\ tracing' = [NoTracing EXCEPT !.pc = "cold"]
  /\ out' = [op |-> "reopen", kind |-> out.kind]
  /\ UNCHANGED <<ref, inserted, store, clock, lastFlush, tableVars>>

\* mutant: the insert also loads the segment after the target
InsertLoads_Neighbour(segIndex) == [from |-> segIndex, to |-> segIndex + 1]

\* the segments one insert loads before it edits: the target segment
InsertLoads(segIndex) == [from |-> segIndex, to |-> segIndex]

\* the segment insertAt(index, value) edits
InsertAtTarget(l, index) ==
  LET clamped == Clamp(index, l.totalCount)
  IN  IF clamped = l.totalCount THEN Len(l.segments) - 1
      ELSE findByIndex(l, clamped).segIndex

\* the state one step after a traced call on the cold sequence l with target
\* segment segIndex: ensureSegmentLoaded runs up to its await; a call that awaits
\* no store get runs to its end at once. done is the sequence after the whole call
TracedCall(l, segIndex, done, call) ==
  \E w \in {InsertLoads(segIndex)} :
    \E g \in {StartLoads(l, store, tracing, w.from, w.to)} :
      /\ tracing' = [g.t EXCEPT !.pc = IF g.t.pending = {} THEN "done" ELSE "loading"]
      /\ list' = IF out.kind # "list" THEN list
                 ELSE IF g.t.pending = {} THEN done ELSE g.l
      /\ olist' = IF out.kind # "ordered" THEN olist
                  ELSE IF g.t.pending = {} THEN done ELSE g.l
      /\ out' = call @@ [kind |-> out.kind, split |-> Len(done.segments) > Len(l.segments),
                         gets |-> Cardinality(g.t.pending)]

\* insertAt(i, v) is called on the cold indexed sequence
InsertAtCall ==
  /\ out.kind = "list"
  /\ tracing.pc = "cold"
  /\ \E i \in 0..list.totalCount :
       TracedCall(list, InsertAtTarget(list, i),
                  insertAt(list, store, i, Len(ref) + 1),
                  [op |-> "insertAt", index |-> i, value |-> Len(ref) + 1])
  /\ UNCHANGED <<ref, inserted, store, clock, lastFlush, tableVars>>

\* insert(v) is called on the cold ordered sequence
InsertCall ==
  /\ out.kind = "ordered"
  /\ tracing.pc = "cold"
  /\ Len(olist.segments) > 0
  /\ \E v \in 1..MaxValue :
       TracedCall(olist, findFirstSegmentByMaxLowerBound(olist, v),
                  insert(olist, store, v).l,
                  [op |-> "insert", value |-> v])
  /\ UNCHANGED <<ref, inserted, store, clock, lastFlush, tableVars>>

\* the store gets resolve and the call runs to its end: the edit, and the split
\* where the segment is over capacity, await no store get
InsertResumes ==
  /\ tracing.pc = "loading"
  /\ list' = IF out.op = "insertAt"
               THEN insertAt(list, store, out.index, out.value) ELSE list
  /\ olist' = IF out.op = "insert" THEN insert(olist, store, out.value).l ELSE olist
  /\ tracing' = [tracing EXCEPT !.pc = "done", !.pending = {}, !.activeGets = 0]
  /\ UNCHANGED <<ref, inserted, out, store, clock, lastFlush, tableVars>>

NextInsertLoad ==
  \/ ColdInsertAt \/ ColdInsert \/ ColdFlush \/ ColdReopen
  \/ InsertAtCall \/ InsertCall \/ InsertResumes

SpecInsertLoad == InitInsertLoad /\ [][NextInsertLoad]_vars

\* C35: on a sequence whose segments are all cold, one insertAt (indexed) or one
\* insert (ordered), a call that triggers a split included, issues at most one
\* store get and never has more than one get in flight; when the call has
\* returned the sequence holds at most one chunk
C35_SingleInsertLoadsOnce ==
  tracing.pc \in {"loading", "done"} =>
    /\ tracing.totalGets <= 1
    /\ tracing.maxActiveGets <= 1
    /\ tracing.activeGets <= 1
    /\ tracing.pc = "done" => Cardinality(DOMAIN Traced.chunkCache) <= 1

\* C35 witness: an insertAt that split a segment has returned after one store get
C35_Witness ==
  /\ tracing.pc = "done" /\ out.op = "insertAt" /\ out.split
  /\ tracing.totalGets = 1
  /\ Len(list.segments) >= 3

\* an ordered insert that split a segment has returned after one store get
C35_WitnessOrdered ==
  /\ tracing.pc = "done" /\ out.op = "insert" /\ out.split
  /\ tracing.totalGets = 1

(* ---- specification SpecManyLoad: one insertManyAt on an indexed sequence whose
        segments are all cold, as the steps between its awaits on the store ---- *)
\* tracing.pc is "build", "flushed", "cold", "grouping" (the grouping loop awaits
\* ensureSegmentLoaded of the last segment), "prefetch" (the call awaits
\* Promise.all of the prefetch) or "done"
InitManyLoad ==
  /\ \E s \in 1..MaxSegmentCount, c \in 0..MaxChunkCount :
       list = NewSequence("list", s, c, <<>>, <<>>)
  /\ out = [op |-> "new", kind |-> "list"]
  /\ ref = <<>>
  /\ store = EmptyStore /\ clock = 0 /\ lastFlush = NoFlush
  /\ tracing = [NoTracing EXCEPT !.pc = "build"]
  /\ OrderedUnused /\ TableUnused

\* the grouping loop from pair i on, up to the first await on a store get: a pair
\* at the end awaits ensureSegmentLoaded of the last segment before the loop goes
\* on; i is the pair the loop stands at, beyond the last pair when the loop is
\* through
RECURSIVE GroupUntilAwait(_, _, _, _, _, _)
GroupUntilAwait(l, st, t, mapped, i, perSeg) ==
  IF i > Len(mapped) THEN [l |-> l, t |-> t, i |-> i, perSeg |-> perSeg]
  ELSE IF mapped[i].oldIdx = l.totalCount
    THEN LET segIndex == Max2(0, Len(l.segments) - 1)
             r == l.segments[segIndex + 1].ref
         IN  TheOne({
               IF g.t.pending # {}
                 THEN [l |-> g.l, t |-> g.t, i |-> i, perSeg |-> perSeg]
                 ELSE TheOne({GroupUntilAwait(l1, st, g.t, mapped, i + 1,
                                PerSegPush(perSeg, segIndex,
                                           [local |-> Len(l1.segmentArrays[r]),
                                            val |-> mapped[i].val,
                                            rank |-> mapped[i].rank])) :
                               l1 \in {getOrCreateArraySync(
                                         ensureSegmentLoaded(g.l, st, r), r, <<>>)}}) :
               g \in {StartLoads(l, st, t, segIndex, segIndex)}})
    ELSE TheOne({GroupUntilAwait(l, st, t, mapped, i + 1,
                   PerSegPush(perSeg, f.segIndex,
                              [local |-> f.localIndex,
                               val |-> mapped[i].val, rank |-> mapped[i].rank])) :
                  f \in {findByIndex(l, mapped[i].oldIdx)}})

\* the calls getReadOnlyArrayForSegment of the prefetch, each run up to its first
\* await, in the order of the keys of perSeg
RECURSIVE StartPrefetch(_, _, _, _, _)
StartPrefetch(l, st, t, perSeg, e) ==
  IF e > Len(perSeg) THEN [l |-> l, t |-> t]
  ELSE TheOne({StartPrefetch(g.l, st, g.t, perSeg, e + 1) :
                 g \in {StartLoads(l, st, t, perSeg[e].segIndex, perSeg[e].segIndex)}})

\* the call goes on from the grouping loop in state g: it stays suspended in the
\* loop, or the loop is through and the prefetch starts; a call that awaits no
\* store get runs to its end
AfterGrouping(g, call) ==
  IF g.i <= Len(call.mapped)
    THEN /\ list' = g.l
         /\ tracing' = [g.t EXCEPT !.pc = "grouping"]
         /\ out' = [call EXCEPT !.i = g.i, !.perSeg = g.perSeg]
    ELSE \E p \in {StartPrefetch(g.l, store, g.t, g.perSeg, 1)} :
           /\ out' = [call EXCEPT !.i = g.i, !.perSeg = g.perSeg]
           /\ IF p.t.pending = {}
                THEN /\ list' = insertManyAt(p.l, store, call.indexes, call.values)
                     /\ tracing' = [p.t EXCEPT !.pc = "done"]
                ELSE /\ list' = p.l
                     /\ tracing' = [p.t EXCEPT !.pc = "prefetch"]

\* insertManyAt(indexes, values) with two pairs is called on the cold sequence;
\* touched is the set of segment indexes the batch is grouped into
ManyCall ==
  /\ tracing.pc = "cold"
  /\ Len(list.segments) > 0
  /\ \E indexes \in [1..MaxManyBatch -> 0..(list.totalCount + MaxManyBatch - 1)] :
       LET values == [k \in 1..MaxManyBatch |-> list.totalCount + k]
           mapped == MapPairs(sortAndRankInsertPairs(indexes, values), list.totalCount)
           all == GroupBySegment(list, store, mapped, 1, <<>>).perSeg
       IN  AfterGrouping(GroupUntilAwait(list, store, tracing, mapped, 1, <<>>),
                         [op |-> "insertManyAt", kind |-> "list", indexes |-> indexes,
                          values |-> values, mapped |-> mapped, i |-> 1,
                          perSeg |-> <<>>,
                          touched |-> {all[e].segIndex : e \in 1..Len(all)}])
  /\ UNCHANGED <<ref, orderedVars, store, clock, lastFlush, tableVars>>

\* the store get of the last segment resolves and the grouping loop goes on
GroupResumes ==
  /\ tracing.pc = "grouping"
  /\ \E l1 \in {ensureSegmentLoaded(list, store, list.segments[Len(list.segments)].ref)} :
       AfterGrouping(GroupUntilAwait(l1, store,
                                     [tracing EXCEPT !.pending = {}, !.activeGets = @ - 1],
                                     out.mapped, out.i, out.perSeg),
                     out)
  /\ UNCHANGED <<ref, orderedVars, store, clock, lastFlush, tableVars>>

\* the store gets of the prefetch resolve and the call runs to its end: the
\* merges and the splits await no store get
ManyResumes ==
  /\ tracing.pc = "prefetch"
  /\ list' = insertManyAt(list, store, out.indexes, out.values)
  /\ tracing' = [tracing EXCEPT !.pc = "done", !.pending = {}, !.activeGets = 0]
  /\ UNCHANGED <<ref, out, orderedVars, store, clock, lastFlush, tableVars>>

NextManyLoad ==
  \/ ColdInsertAt \/ ColdFlush \/ ColdReopen
  \/ ManyCall \/ GroupResumes \/ ManyResumes

SpecManyLoad == InitManyLoad /\ [][NextManyLoad]_vars

\* the load of segment k has been started or needs no store get
LoadInitiated(l, t, k) ==
  LET cidx == k \div effectiveChunkSize(l)
  IN  \/ k \in t.pending
      \/ l.segments[k + 1].ref \in DOMAIN l.segmentArrays
      \/ cidx \in DOMAIN l.chunkCache
      \/ cidx + 1 > Len(l.chunks)
      \/ l.chunks[cidx + 1] = NoKey

\* C36: on a sequence whose segments are all cold, an insertManyAt that touches
\* K >= 2 segments, batches with pairs appended at the end included, has started
\* the loads of all touched segments whenever it is suspended on a store get
C36_NoBatchWaterfall ==
  (tracing.pc \in {"grouping", "prefetch"} /\ Cardinality(out.touched) >= 2) =>
    \A k \in out.touched : LoadInitiated(list, tracing, k)

(* ---- specification SpecPartial: insertAt on an indexed sequence constructed
        from a flushed meta, with no working array loaded at the start ---- *)
\* new FenwickList(store, list.getMeta()) after a flush; ref becomes the
\* persisted content, that is what the new sequence returns for
\* range(0, total_count)
PartialReopen ==
  /\ tracing.pc = "flushed"
  /\ list' = Rehydrate(list)
  /\ ref' = Content(Rehydrate(list), store)
  /\ tracing' = [NoTracing EXCEPT !.pc = "cold"]
  /\ out' = [op |-> "reopen", kind |-> out.kind]
  /\ UNCHANGED <<orderedVars, store, clock, lastFlush, tableVars>>

\* insertAt(i, v) on the constructed sequence; split tells whether the call split
\* a segment, coldAfter whether a segment after the target had no working array
PartialInsertAt ==
  /\ tracing.pc \in {"cold", "partial"}
  /\ list.totalCount < MaxColdInserts + MaxPartialInserts
  /\ \E i \in 0..list.totalCount :
       \E l1 \in {insertAt(list, store, i, list.totalCount + 1)} :
         /\ list' = l1
         /\ ref' = RefInsert(ref, i, list.totalCount + 1)
         /\ out' = [op |-> "insertAt", kind |-> out.kind, index |-> i,
                    split |-> Len(l1.segments) > Len(list.segments),
                    coldAfter |-> \E k \in (InsertAtTarget(list, i) + 2)..Len(list.segments) :
                                    list.segments[k].ref \notin DOMAIN list.segmentArrays]
  /\ tracing' = [tracing EXCEPT !.pc = "partial"]
  /\ UNCHANGED <<orderedVars, store, clock, lastFlush, tableVars>>

NextPartial == ColdInsertAt \/ ColdFlush \/ PartialReopen \/ PartialInsertAt

SpecPartial == InitManyLoad /\ [][NextPartial]_vars

typeof(v) ==
  IF v \in 1..9 THEN "number" ELSE IF v \in 11..19 THEN "string" ELSE "boolean"

KeyOrder == <<"id", "name", "score">>

RECURSIVE KeysIn(_, _)
KeysIn(row, keys) ==
  IF keys = <<>> THEN <<>>
  ELSE IF Head(keys) \in DOMAIN row THEN <<Head(keys)>> \o KeysIn(row, Tail(keys))
  ELSE KeysIn(row, Tail(keys))

ObjectKeys(row) == KeysIn(row, KeyOrder)

\* hasOwnProperty(row, k) ? row[k] : undefined, with null read as undefined
RowValue(row, k) == IF k \in DOMAIN row THEN row[k] ELSE Undefined

\* the absent committed snapshot (this.meta === undefined) and the absent store
\* value at metaKey
NoMeta == [present |-> FALSE]

\* the legacy constructor: an order column and typed columns handed in
NewTable(key, order, columns, segmentCount, chunkCount, bulk) ==
  [key |-> key, order |-> order, columns |-> columns,
   defaultsegmentCount |-> segmentCount, defaultchunkCount |-> chunkCount,
   meta |-> NoMeta, bulk |-> bulk]

\* ensureTypedColumn(key, valueType): the existing column, or a new IndexedColumn
\* with the defaults of the table
ensureTypedColumn(t, key, valueType) ==
  IF key \in DOMAIN t.columns THEN t
  ELSE [t EXCEPT !.columns =
          (key :> [type |-> valueType,
                   col |-> NewSequence("list", t.defaultsegmentCount,
                                       t.defaultchunkCount, <<>>, <<>>)]) @@ @]

\* Table.insert step 1: the rows go into the order column in input order; a row
\* without the order key throws after the rows before it were inserted
RECURSIVE InsertOrderLoop(_, _, _, _, _, _)
\* indexes[i] = the position order.column.insert returned (g)
InsertOrderStep(g, st, key, rows, i, indexes) ==
  InsertOrderLoop(g.l, st, key, rows, i + 1, Append(indexes, g.value))

InsertOrderLoop(order, st, key, rows, i, indexes) ==
  IF i > Len(rows) THEN [order |-> order, indexes |-> indexes, ok |-> TRUE]
  ELSE IF RowValue(rows[i], key) = Undefined
    THEN [order |-> order, indexes |-> indexes, ok |-> FALSE]
    ELSE TheOne({InsertOrderStep(g, st, key, rows, i, indexes) :
                   g \in {insert(order, st, RowValue(rows[i], key))}})

\* Table.insert step 3 for one column: the loop of insertAt(indexes[i], vals[i])
RECURSIVE InsertAtLoop(_, _, _, _, _)
InsertAtLoop(col, st, indexes, vals, i) ==
  IF i > Len(vals) THEN col
  ELSE TheOne({InsertAtLoop(c, st, indexes, vals, i + 1) :
                 c \in {insertAt(col, st, indexes[i], vals[i])}})

\* step 3 for one column: insertManyAt when the column provides it, else the loop
InsertBatch(bulk, col, st, indexes, vals) ==
  IF bulk THEN insertManyAt(col, st, indexes, vals)
  ELSE InsertAtLoop(col, st, indexes, vals, 1)

\* Table.insert steps 2 and 3: every typed column that exists before the call
InsertPreExisting(t, st, rows, indexes) ==
  [k \in DOMAIN t.columns |->
     IF k = t.key THEN t.columns[k]
     ELSE [t.columns[k] EXCEPT
             !.col = InsertBatch(t.bulk, @, st, indexes,
                                 [i \in 1..Len(rows) |-> RowValue(rows[i], k)])]]

\* Table.insert step 4: the keys seen in the batch that name no column yet
CandidateNewKeys(t, rows) ==
  {k \in UNION {DOMAIN rows[i] : i \in 1..Len(rows)} :
     k # t.key /\ k \notin DOMAIN t.columns}

\* step 4a for one row: the columns created earlier in this call take the cell
\* of the row, or undefined
InsertCreated(t, createdNew, st, row, idx) ==
  [k \in DOMAIN t.columns |->
     IF k \in createdNew
       THEN [t.columns[k] EXCEPT !.col = insertAt(@, st, idx, RowValue(row, k))]
       ELSE t.columns[k]]

\* step 4b for one row: a column is created at the first concrete cell of its key
RECURSIVE CreateColumns(_, _, _, _, _, _, _)
CreateColumns(t, createdNew, candidates, st, row, idx, keys) ==
  IF keys = <<>> THEN [t |-> t, createdNew |-> createdNew, ok |-> TRUE]
  ELSE LET k == Head(keys)
       IN  IF k = t.key \/ k \notin candidates \/ k \in createdNew \/ row[k] = Undefined
             THEN CreateColumns(t, createdNew, candidates, st, row, idx, Tail(keys))
           ELSE IF typeof(row[k]) \notin {"number", "string"}
             THEN [t |-> t, createdNew |-> createdNew, ok |-> FALSE]
           ELSE TheOne({CreateColumns(t2, createdNew \cup {k}, candidates, st, row, idx,
                                      Tail(keys)) :
                         t2 \in {[t1 EXCEPT !.columns[k].col = insertAt(@, st, idx, row[k])] :
                                  t1 \in {ensureTypedColumn(t, k, typeof(row[k]))}}})

\* step 4: the loop over the rows
RECURSIVE InsertNewLoop(_, _, _, _, _, _, _)
\* after step 4b of row i (c): the next row, or the throw of 4b
InsertNewStep(c, candidates, st, rows, indexes, i) ==
  IF c.ok
    THEN InsertNewLoop(c.t, c.createdNew, candidates, st, rows, indexes, i + 1)
    ELSE [t |-> c.t, ok |-> FALSE, error |-> "type"]

InsertNewLoop(t, createdNew, candidates, st, rows, indexes, i) ==
  IF i > Len(rows) THEN [t |-> t, ok |-> TRUE, error |-> "none"]
  ELSE TheOne({InsertNewStep(c, candidates, st, rows, indexes, i) :
                 c \in {CreateColumns(t1, createdNew, candidates, st, rows[i], indexes[i],
                                      ObjectKeys(rows[i])) :
                          t1 \in {[t EXCEPT !.columns =
                                     InsertCreated(t, createdNew, st, rows[i], indexes[i])]}}})

\* Table.insert(rows): the table afterwards, whether the call resolved, and the
\* error it threw ("key": a row without the order key, "type": an unsupported
\* column type)
\* steps 2 to 4, after step 1 left the order column and the indexes (o)
InsertColumns(t, st, rows, o) ==
  IF ~o.ok THEN [t |-> [t EXCEPT !.order = o.order], ok |-> FALSE, error |-> "key"]
  ELSE TheOne({InsertNewLoop(t1, {}, CandidateNewKeys(t, rows), st, rows, o.indexes, 1) :
                 t1 \in {[t EXCEPT !.order = o.order,
                                   !.columns = InsertPreExisting(t, st, rows, o.indexes)]}})

TableInsertRows(t, st, rows) ==
  IF Len(rows) = 0 THEN [t |-> t, ok |-> TRUE, error |-> "none"]
  ELSE TheOne({InsertColumns(t, st, rows, o) :
                 o \in {InsertOrderLoop(t.order, st, t.key, rows, 1, <<>>)}})

\* Number.POSITIVE_INFINITY, and the absent limit of Table.range(offset)
Infinity == 1000000
NoLimit == -1

\* mutant: the columns are read from index 0 whatever the offset
AbsoluteIndex_Relative(a, i) == i

\* the index of column.get(a + i)
AbsoluteIndex(a, i) == a + i

\* the loop of column.get(a + i) for i = 0..len-1 over one column
RECURSIVE GetLoop(_, _, _, _, _, _)
GetLoop(col, st, a, len, i, vals) ==
  IF i >= len THEN [l |-> col, value |-> vals]
  ELSE TheOne({GetLoop(g.l, st, a, len, i + 1, Append(vals, g.value)) :
                 g \in {get(col, st, AbsoluteIndex(a, i))}})

\* Table.range(offset, limit): the order values of [a, b) and, per typed column,
\* the values at the same absolute indexes; a cell that reads undefined is left
\* out of its row
TableRange(t, st, offset, limit) ==
  LET a == Max2(0, offset)
      b == a + (IF limit = NoLimit THEN Infinity ELSE limit)
      typed == DOMAIN t.columns \ {t.key}
  IN  TheOne({
        TheOne({
          [t |-> [t EXCEPT !.order = o.l,
                           !.columns = [k \in DOMAIN t.columns |->
                                          IF k \in typed
                                            THEN [t.columns[k] EXCEPT !.col = cols[k].l]
                                            ELSE t.columns[k]]],
           value |-> [i \in 1..Len(o.value) |->
                        [k \in {t.key} \cup {c \in typed : cols[c].value[i] # Undefined} |->
                           IF k = t.key THEN o.value[i] ELSE cols[k].value[i]]]] :
          cols \in {[k \in typed |->
                       GetLoop(t.columns[k].col, st, a, Len(o.value), 0, <<>>)]}}) :
        o \in {range(t.order, st, a, b)}})

\* new OrderedColumn(store, meta) and new IndexedColumn(store, meta): a sequence over
\* the segment descriptors and chunk keys of a stored meta
SequenceFromMeta(kind, m) ==
  NewSequence(kind, m.segmentCount, m.chunkCount,
              [i \in 1..Len(m.segments) |->
                 IF kind = "ordered"
                   THEN [ref |-> i - 1, count |-> m.segments[i].count,
                         min |-> m.segments[i].min, max |-> m.segments[i].max]
                   ELSE [ref |-> i - 1, count |-> m.segments[i].count]],
              m.chunks)

\* new Table(store, meta) and setMeta(meta): rehydrate builds the order column
\* and the typed columns of both buckets from the meta, whose clone becomes the
\* committed snapshot
rehydrate(meta, bulk) ==
  [key |-> meta.order.key,
   order |-> SequenceFromMeta("ordered", meta.order.meta),
   columns |->
     [k \in DOMAIN meta.columns.number \cup DOMAIN meta.columns.string |->
        IF k \in DOMAIN meta.columns.string
          THEN [type |-> "string", col |-> SequenceFromMeta("list", meta.columns.string[k])]
          ELSE [type |-> "number", col |-> SequenceFromMeta("list", meta.columns.number[k])]],
   defaultsegmentCount |-> meta.defaults.segmentCount,
   defaultchunkCount |-> meta.defaults.chunkCount,
   meta |-> meta, bulk |-> bulk]

\* structuredClone of the meta of a sequence: the values without the identity of
\* the segment objects
CloneSequenceMeta(l) ==
  [segmentCount |-> l.segmentCount, chunkCount |-> l.chunkCount,
   segments |-> [i \in 1..Len(l.segments) |->
                   IF l.kind = "ordered"
                     THEN [count |-> l.segments[i].count, min |-> l.segments[i].min,
                           max |-> l.segments[i].max]
                     ELSE [count |-> l.segments[i].count]],
   chunks |-> l.chunks]

\* structuredClone(buildMetaSnapshot()): buildMetaSnapshot holds the live metas of
\* the columns, so the clone has their values at the time of cloning
buildMetaSnapshot(t) ==
  [present |-> TRUE,
   defaults |-> [segmentCount |-> t.defaultsegmentCount, chunkCount |-> t.defaultchunkCount],
   order |-> [key |-> t.key, valueType |-> "number", meta |-> CloneSequenceMeta(t.order)],
   columns |->
     [string |-> [k \in {n \in DOMAIN t.columns : n # t.key /\ t.columns[n].type = "string"} |->
                    CloneSequenceMeta(t.columns[k].col)],
      number |-> [k \in {n \in DOMAIN t.columns : n # t.key /\ t.columns[n].type = "number"} |->
                    CloneSequenceMeta(t.columns[k].col)]]]

\* mutant: getMeta always builds the snapshot from the live column metas
getMeta_Live(t) == buildMetaSnapshot(t)

\* Table.getMeta(): the committed snapshot, the live one when nothing is committed
getMeta(t) == IF t.meta # NoMeta THEN t.meta ELSE buildMetaSnapshot(t)

\* Promise.all over the column flushes rejects as soon as one of them rejects
\* mutant: it waits for all of them and resolves (Promise.allSettled)
PromiseAllRejects_Settled(rejected) == FALSE

PromiseAllRejects(rejected) == rejected

\* this.meta while store.set(metaKey, snapshot) is pending: the assignment
\* follows the await
\* mutant: the snapshot is assigned before store.set is awaited
MetaDuringSet_Early(committed, snapshot) == snapshot

MetaDuringSet(committed, snapshot) == committed

\* the column tasks of Table.flush: the order column (named by the order key)
\* and every typed column
FlushTasks(t) == {t.key} \cup DOMAIN t.columns

ColumnOf(t, c) == IF c = t.key THEN t.order ELSE t.columns[c].col

SetColumn(t, c, l) ==
  IF c = t.key THEN [t EXCEPT !.order = l] ELSE [t EXCEPT !.columns[c].col = l]

\* the writes of one flush that a failing store rejects: none, or those from one
\* chunk index on
StoreOutages(changed) == {{}} \cup {{c \in changed : c >= k} : k \in changed}

(* ---- specification SpecTable: a table under insert and flush(metaKey) with a
        store whose writes may reject ---- *)
\* tflush is the call of Table.flush: pc is "idle", "columns" (Promise.all is
\* awaited), "all" (Promise.all resolved) or "set" (store.set(metaKey) is
\* awaited); pending holds the column flushes not settled yet; prevMeta and
\* prevStored are this.meta and the store value at metaKey when the call began;
\* second tells that the call before this one was a Table.flush that resolved
IdleFlush ==
  [pc |-> "idle", pending |-> {}, failed |-> FALSE, setInvoked |-> FALSE,
   setAccepted |-> FALSE, setResolved |-> FALSE, result |-> "none",
   prevMeta |-> NoMeta, prevStored |-> NoMeta, n |-> 0, second |-> FALSE]

\* the rows the specification inserts: {id: 2, name: "a"} and {id: 1}
TableRows == {[id |-> 2, name |-> 11], [id |-> 1]}

\* the batches of n rows
TableBatches(n) == [1..n -> TableRows]

InitTable ==
  /\ \E s \in 1..MaxSegmentCount, c \in {0, MaxChunkCount}, names \in {{}, {"name"}} :
       table = NewTable("id", NewSequence("ordered", s, c, <<>>, <<>>),
                        [k \in names |->
                           [type |-> "string",
                            col |-> NewSequence("list", s, c, <<>>, <<>>)]],
                        s, c, TRUE)
  /\ metaStore = NoMeta
  /\ tflush = IdleFlush
  /\ given = <<>>
  /\ out = NoCall
  /\ ListUnused /\ OrderedUnused /\ StoreEmpty

\* Table.insert(rows); the caller has awaited the call before it and the column
\* flushes a rejected flush left behind
TableInsert ==
  /\ tflush.pc = "idle" /\ tflush.pending = {}
  /\ \E n \in 1..(MaxTableRows - table.order.totalCount) :
     \E rows \in TableBatches(n) :
       \E g \in {TableInsertRows(table, store, rows)} :
         /\ table' = g.t
         /\ out' = [op |-> "tableInsert", ok |-> g.ok]
  /\ UNCHANGED <<listVars, orderedVars, storeVars, metaStore, tflush, given>>

\* Table.flush(metaKey) is called: every column flush is started
TableFlush ==
  /\ tflush.pc = "idle" /\ tflush.pending = {}
  /\ tflush.n < MaxTableFlushes
  /\ tflush' = [IdleFlush EXCEPT !.pc = "columns", !.pending = FlushTasks(table),
                                 !.result = "pending", !.prevMeta = table.meta,
                                 !.prevStored = metaStore, !.n = tflush.n + 1,
                                 !.second = (/\ out.op = "tableFlush"
                                             /\ tflush.result = "resolved")]
  /\ out' = [op |-> "tableFlush"]
  /\ UNCHANGED <<listVars, orderedVars, storeVars, table, metaStore, given>>

\* the flush of one column settles: it resolves, or it rejects because the store
\* rejected the write of some of its chunks. A rejection rejects Promise.all and
\* with it Table.flush, while the other column flushes go on
ColumnFlush ==
  /\ \E c \in tflush.pending :
       \E failing \in StoreOutages(ChangedChunks(ColumnOf(table, c))) :
         \E g \in {flush(ColumnOf(table, c), store, clock, failing)} :
           /\ table' = SetColumn(table, c, g.l)
           /\ store' = g.store
           /\ clock' = g.clock
           /\ tflush' =
                IF tflush.pc = "columns" /\ PromiseAllRejects(~g.ok)
                  THEN [tflush EXCEPT !.pc = "idle", !.pending = @ \ {c},
                                      !.failed = TRUE, !.result = "rejected"]
                ELSE IF tflush.pc = "columns" /\ tflush.pending = {c}
                  THEN [tflush EXCEPT !.pc = "all", !.pending = {},
                                      !.failed = @ \/ ~g.ok]
                ELSE [tflush EXCEPT !.pending = @ \ {c}, !.failed = @ \/ ~g.ok]
  /\ UNCHANGED <<listVars, orderedVars, lastFlush, tracing, metaStore, out, given>>

\* Promise.all resolved: the snapshot is built and store.set(metaKey, snapshot)
\* is called. A MemoryStore clones the value into its map during the call; a
\* store that is going to reject keeps its value
MetaSet ==
  /\ tflush.pc = "all"
  /\ \E accepted \in BOOLEAN :
       /\ metaStore' = IF accepted THEN buildMetaSnapshot(table) ELSE metaStore
       /\ tflush' = [tflush EXCEPT !.pc = "set", !.setInvoked = TRUE,
                                   !.setAccepted = accepted]
  /\ table' = [table EXCEPT !.meta = MetaDuringSet(@, buildMetaSnapshot(table))]
  /\ UNCHANGED <<listVars, orderedVars, storeVars, out, given>>

\* store.set(metaKey, snapshot) settles: after it resolved the clone of the
\* snapshot becomes this.meta; after it rejected Table.flush rejects
MetaSetSettles ==
  /\ tflush.pc = "set"
  /\ IF tflush.setAccepted
       THEN /\ table' = [table EXCEPT !.meta = buildMetaSnapshot(table)]
            /\ tflush' = [tflush EXCEPT !.pc = "idle", !.setResolved = TRUE,
                                        !.result = "resolved"]
       ELSE /\ table' = table
            /\ tflush' = [tflush EXCEPT !.pc = "idle", !.result = "rejected"]
  /\ UNCHANGED <<listVars, orderedVars, storeVars, metaStore, out, given>>

NextTable == TableInsert \/ TableFlush \/ ColumnFlush \/ MetaSet \/ MetaSetSettles

SpecTable == InitTable /\ [][NextTable]_vars

(* ---- specification SpecRows: a table under insert, range, flush(metaKey)
        with a working store, and reconstruction from the stored meta ---- *)
\* the rows with order key id: without a name, with the name of that row, with a
\* null name, with a boolean under name
RowVariants(id) ==
  {[id |-> id], [id |-> id, name |-> 10 + id], [id |-> id, name |-> Undefined],
   [id |-> id, name |-> 21]}

\* a row without the order key
KeylessRows == {[name |-> 19]}

\* whether a cell is a number, a string or missing
Supported(v) == v = Undefined \/ typeof(v) \in {"number", "string"}

RowSupported(row, key) == \A k \in DOMAIN row \ {key} : Supported(row[k])

\* the batches of n rows with distinct order keys that are not in the table yet
RowBatches(n, usedIds) ==
  {b \in [1..n -> KeylessRows \cup UNION {RowVariants(id) : id \in (1..MaxRows) \ usedIds}] :
     \A i, j \in 1..n : (i < j /\ "id" \in DOMAIN b[i] /\ "id" \in DOMAIN b[j])
                          => b[i].id # b[j].id}

\* given is the record of the calls so far: rows (the rows of the calls, in call
\* order), ids (the order keys handed in) and clean (every call so far resolved
\* and carried supported values only)
NoRows == [rows |-> <<>>, ids |-> {}, clean |-> TRUE]

\* whether every typed column is as long as the order column
Aligned(t) ==
  \A k \in DOMAIN t.columns \ {t.key} : t.columns[k].col.totalCount = t.order.totalCount

InitRows ==
  /\ \E s \in 1..MaxSegmentCount, names \in {{}, {"name"}}, bulk \in BOOLEAN :
       table = NewTable("id", NewSequence("ordered", s, 0, <<>>, <<>>),
                        [k \in names |->
                           [type |-> "string",
                            col |-> NewSequence("list", s, 0, <<>>, <<>>)]],
                        s, 0, bulk)
  /\ metaStore = NoMeta
  /\ tflush = IdleFlush
  /\ given = NoRows
  /\ out = NoCall
  /\ ListUnused /\ OrderedUnused /\ StoreEmpty

\* Table.insert(rows); out keeps the batch, the outcome and what held before
RowsInsert ==
  /\ given.clean
  /\ \E n \in 1..MaxRowBatch :
       /\ Cardinality(given.ids) + n <= MaxRows
       /\ \E rows \in RowBatches(n, given.ids) :
            \E g \in {TableInsertRows(table, store, rows)} :
              LET clean == g.ok /\ \A i \in 1..n : RowSupported(rows[i], table.key)
              IN  /\ table' = g.t
                  /\ out' = [op |-> "tableInsert", ok |-> g.ok, error |-> g.error,
                             rows |-> rows, before |-> given.rows,
                             aligned |-> Aligned(table)]
                  /\ given' = [rows |-> IF clean THEN given.rows \o rows ELSE given.rows,
                               ids |-> given.ids \cup
                                         {rows[i].id : i \in {j \in 1..n : "id" \in DOMAIN rows[j]}},
                               clean |-> clean]
  /\ UNCHANGED <<listVars, orderedVars, storeVars, metaStore, tflush>>

\* Table.range(0); the rows are kept in out
RowsRange ==
  /\ out.op \notin {"tableRange", "reopen"}
  /\ \E g \in {TableRange(table, store, 0, NoLimit)} :
       /\ table' = g.t
       /\ out' = [op |-> "tableRange", value |-> g.value]
  /\ UNCHANGED <<listVars, orderedVars, storeVars, metaStore, tflush, given>>

\* the column flushes of Table.flush with a store that resolves every write
RECURSIVE FlushColumns(_, _, _, _)
FlushColumns(t, st, clk, keys) ==
  IF keys = <<>> THEN [t |-> t, store |-> st, clock |-> clk]
  ELSE IF Head(keys) \notin FlushTasks(t) THEN FlushColumns(t, st, clk, Tail(keys))
  ELSE TheOne({FlushColumns(SetColumn(t, Head(keys), g.l), g.store, g.clock, Tail(keys)) :
                 g \in {flush(ColumnOf(t, Head(keys)), st, clk, {})}})

\* Table.flush(metaKey) with a store that resolves every write: the columns are
\* flushed, the snapshot is stored and its clone is committed
RowsFlush ==
  /\ given.clean
  /\ out.op = "tableInsert"
  /\ \E g \in {FlushColumns(table, store, clock, KeyOrder)} :
       /\ table' = [g.t EXCEPT !.meta = buildMetaSnapshot(g.t)]
       /\ metaStore' = buildMetaSnapshot(g.t)
       /\ store' = g.store
       /\ clock' = g.clock
  /\ out' = [op |-> "tableFlush"]
  /\ UNCHANGED <<listVars, orderedVars, lastFlush, tracing, tflush, given>>

\* after a flush: range(0) of the table and of a Table constructed from the value
\* stored at metaKey
RowsReopen ==
  /\ out.op = "tableFlush"
  /\ \E g \in {TableRange(table, store, 0, NoLimit)} :
       /\ table' = g.t
       /\ out' = [op |-> "reopen", original |-> g.value,
                  reopened |-> TableRange(rehydrate(metaStore, table.bulk), store,
                                          0, NoLimit).value]
  /\ UNCHANGED <<listVars, orderedVars, storeVars, metaStore, tflush, given>>

NextRows == RowsInsert \/ RowsRange \/ RowsFlush \/ RowsReopen

SpecRows == InitRows /\ [][NextRows]_vars

\* the rows in ascending order of the order key, each with its cells that are not
\* missing
ExpectedRows(rows, key) ==
  LET n == Len(rows)
      before(i) == Cardinality({j \in 1..n : rows[j][key] < rows[i][key]})
  IN  [r \in 1..n |->
         LET row == rows[CHOOSE k \in 1..n : before(k) = r - 1]
         IN  [c \in {key} \cup {x \in DOMAIN row : row[x] # Undefined} |-> row[c]]]

\* C11: after Table.insert batches (rows in any key order, rows that introduce a
\* column at any time, rows that omit a column), Table.range(0) returns one row
\* per inserted row in ascending order of the order key, each with exactly the
\* cells of the input row of that key that are not missing
C11_RowIntegrity ==
  (out.op = "tableRange" /\ given.clean) =>
    out.value = ExpectedRows(given.rows, table.key)

\* C12: after every Table.insert call that returns, every typed column is as long
\* as the order column, the columns created during the call included
C12_ColumnAlignment ==
  (out.op = "tableInsert" /\ out.ok) => Aligned(table)

\* the position of the first row of a batch without the order key, 0 when every
\* row has it
FirstKeyless(rows, key) ==
  IF \E i \in 1..Len(rows) : key \notin DOMAIN rows[i]
    THEN CHOOSE i \in 1..Len(rows) :
           /\ key \notin DOMAIN rows[i]
           /\ \A j \in 1..(i - 1) : key \in DOMAIN rows[j]
    ELSE 0

\* C16: Table.insert(rows) rejects when row k has no order key; row k and the
\* rows after it contribute nothing, the rows before k are inserted into the
\* order column and into every other column, and the columns are aligned
C16_MissingOrderKey ==
  (/\ out.op = "tableInsert"
   /\ FirstKeyless(out.rows, table.key) > 0
   /\ out.aligned
   /\ \A i \in 1..Len(out.rows) : RowSupported(out.rows[i], table.key)) =>
     /\ ~out.ok
     /\ Aligned(table)
     /\ TableRange(table, store, 0, NoLimit).value =
          ExpectedRows(out.before \o
                         SubSeq(out.rows, 1, FirstKeyless(out.rows, table.key) - 1),
                       table.key)

\* C17: Table.insert rejects whenever a row carries, under a column other than
\* the order key, a value that is neither a number nor a string nor missing,
\* whether the column exists or not, and no such value is stored in a column
C17_UnsupportedType ==
  /\ (/\ out.op = "tableInsert"
      /\ \E i \in 1..Len(out.rows) : ~RowSupported(out.rows[i], table.key)) => ~out.ok
  /\ \A k \in DOMAIN table.columns \ {table.key} :
       \A r \in DOMAIN table.columns[k].col.segmentArrays :
         \A i \in 1..Len(table.columns[k].col.segmentArrays[r]) :
           Supported(table.columns[k].col.segmentArrays[r][i])

\* C13: after insert batches and a flush(metaKey) that resolved, a Table
\* constructed from the value stored at metaKey returns from range(0) the rows
\* the original table returns, in the same order
C13_TableRoundTrip ==
  out.op = "reopen" => out.reopened = out.original

\* C19: of two consecutive Table.flush(metaKey) calls with no insert in between,
\* the second resolves as the first did (no column flush rejects; it rejects only
\* when the store rejects the write of metaKey itself), and the snapshot it
\* stores and commits is equal to the one of the first: same segment descriptors
\* and same chunk keys for every column
C19_TableFlushIdempotent ==
  (tflush.second /\ out.op = "tableFlush") =>
    /\ ~tflush.failed
    /\ (tflush.result = "rejected" => (tflush.setInvoked /\ ~tflush.setAccepted))
    /\ metaStore = tflush.prevStored
    /\ table.meta = tflush.prevMeta
    /\ buildMetaSnapshot(table) = tflush.prevMeta

\* C19 witness: a second flush resolved on a table of two rows whose first flush
\* wrote chunks of the order column and of a typed column
C19_Witness ==
  /\ tflush.second /\ out.op = "tableFlush"
  /\ tflush.result = "resolved"
  /\ table.order.totalCount >= 2
  /\ metaStore # NoMeta
  /\ \E k \in 1..Len(metaStore.order.meta.chunks) :
       metaStore.order.meta.chunks[k] # NoKey
  /\ \E c \in DOMAIN table.columns : table.columns[c].col.totalCount >= 1

(* ---- specification SpecSlice: a table under single-row inserts and
        range(offset, limit) ---- *)
\* the rows the specification inserts under an unused id: with a name or without
SliceRows(id) == {[id |-> id], [id |-> id, name |-> 10 + id]}

InitSlice ==
  /\ \E s \in 1..MaxSegmentCount, names \in {{}, {"name"}} :
       table = NewTable("id", NewSequence("ordered", s, 0, <<>>, <<>>),
                        [k \in names |->
                           [type |-> "string",
                            col |-> NewSequence("list", s, 0, <<>>, <<>>)]],
                        s, 0, FALSE)
  /\ metaStore = NoMeta
  /\ tflush = IdleFlush
  /\ given = NoRows
  /\ out = NoCall
  /\ ListUnused /\ OrderedUnused /\ StoreEmpty

\* Table.insert([row])
SliceInsert ==
  /\ Cardinality(given.ids) < MaxSliceRows
  /\ \E id \in (1..MaxSliceRows) \ given.ids :
       \E row \in SliceRows(id) :
         \E g \in {TableInsertRows(table, store, <<row>>)} :
           /\ table' = g.t
           /\ out' = [op |-> "tableInsert", ok |-> g.ok]
           /\ given' = [given EXCEPT !.rows = Append(@, row), !.ids = @ \cup {id}]
  /\ UNCHANGED <<listVars, orderedVars, storeVars, metaStore, tflush>>

\* Table.range(offset, limit), limit possibly omitted
SliceRange ==
  /\ out.op # "tableSlice"
  /\ \E offset \in -1..MaxOffset, limit \in {NoLimit} \cup 0..MaxLimit :
       \E g \in {TableRange(table, store, offset, limit)} :
         /\ table' = g.t
         /\ out' = [op |-> "tableSlice", offset |-> offset, limit |-> limit,
                    value |-> g.value]
  /\ UNCHANGED <<listVars, orderedVars, storeVars, metaStore, tflush, given>>

NextSlice == SliceInsert \/ SliceRange

SpecSlice == InitSlice /\ [][NextSlice]_vars

\* the rows at positions [a, b) of the columns: the order value of the position
\* and the value of every typed column that has one there
PositionRows(t, st, a, b) ==
  LET ord == Content(t.order, st)
      typed == DOMAIN t.columns \ {t.key}
      cc == [k \in typed |-> Content(t.columns[k].col, st)]
      hi == Min2(b, Len(ord))
  IN  [i \in 1..Max2(0, hi - a) |->
         [k \in {t.key} \cup {c \in typed : /\ a + i <= Len(cc[c])
                                             /\ cc[c][a + i] # Undefined} |->
            IF k = t.key THEN ord[a + i] ELSE cc[k][a + i]]]

\* C21: Table.range(offset, limit) returns the rows at positions
\* [max(0, offset), max(0, offset) + limit) of the table, clipped to its length,
\* and all rows from offset on when limit is absent; each row holds the order
\* key of its position and the values of the other columns at that position
\* that are not missing
C21_TableRangeSlice ==
  out.op = "tableSlice" =>
    out.value =
      PositionRows(table, store, Max2(0, out.offset),
                   IF out.limit = NoLimit THEN table.order.totalCount
                   ELSE Max2(0, out.offset) + out.limit)

\* C21 witness: a range of one row from a positive offset that leaves rows out
\* on both sides and returns a cell of a typed column
C21_Witness ==
  /\ out.op = "tableSlice"
  /\ out.offset >= 1 /\ out.limit = 1
  /\ table.order.totalCount >= out.offset + 2
  /\ Len(out.value) = 1
  /\ DOMAIN out.value[1] # {table.key}

\* C9: when the flush of a column (the order column or a typed column) rejects
\* during Table.flush(metaKey), Table.flush rejects, store.set(metaKey, ...) is
\* not invoked, the store value at metaKey is the one from before the call, and
\* getMeta() returns the snapshot committed before the call
C9_AtomicMetaCommit ==
  tflush.failed =>
    /\ tflush.result = "rejected"
    /\ ~tflush.setInvoked
    /\ metaStore = tflush.prevStored
    /\ table.meta = tflush.prevMeta
    /\ (tflush.prevMeta # NoMeta => getMeta(table) = tflush.prevMeta)

\* C9 happens: after a committed flush, a later flush had a column reject while
\* the live metas already differ from the committed snapshot
C9_Witness ==
  /\ tflush.failed
  /\ tflush.prevMeta # NoMeta
  /\ tflush.prevStored # NoMeta
  /\ tflush.pending = {}
  /\ buildMetaSnapshot(table).order.meta.chunks # tflush.prevMeta.order.meta.chunks

\* C10: with an earlier committed snapshot, getMeta() returns that snapshot as
\* long as the column flushes or store.set(metaKey, snapshot) are pending, it
\* returns another one only after store.set resolved, and it keeps returning the
\* earlier one when Table.flush rejected
C10_CommitVisibility ==
  (tflush.n > 0 /\ tflush.prevMeta # NoMeta) =>
    /\ (tflush.pc \in {"columns", "all", "set"} => getMeta(table) = tflush.prevMeta)
    /\ (getMeta(table) # tflush.prevMeta => tflush.setResolved)
    /\ (tflush.result = "rejected" => getMeta(table) = tflush.prevMeta)

\* C10 happens: store.set is pending for a snapshot that differs from the
\* committed one
C10_Witness ==
  /\ tflush.pc = "set"
  /\ tflush.setAccepted
  /\ tflush.prevMeta # NoMeta
  /\ buildMetaSnapshot(table) # tflush.prevMeta
  /\ metaStore = buildMetaSnapshot(table)

\* C37: once a table has a committed snapshot, a Table.insert changes neither the
\* value getMeta() returns nor the value stored at metaKey; the value of getMeta()
\* changes only when the store.set(metaKey, snapshot) of a flush has resolved, the
\* stored value only through the store.set of a flush that the store accepts
C37_SnapshotFramed ==
  [][table.meta # NoMeta =>
       /\ TableInsert => (getMeta(table') = getMeta(table) /\ metaStore' = metaStore)
       /\ getMeta(table') # getMeta(table) => (MetaSetSettles /\ tflush.setAccepted)
       /\ metaStore' # metaStore => (MetaSet /\ tflush'.setAccepted)]_vars

\* C37 happens: the last call is an insert into a table with a committed snapshot,
\* and the live metas differ from the snapshot getMeta() returns
C37_Witness ==
  /\ out.op = "tableInsert"
  /\ table.meta # NoMeta /\ metaStore # NoMeta
  /\ getMeta(table) = table.meta
  /\ buildMetaSnapshot(table) # getMeta(table)
  /\ metaStore = table.meta

\* the chunk keys a table meta snapshot refers to
SnapshotKeys(m) ==
  LET keys(sm) == {sm.chunks[i] : i \in 1..Len(sm.chunks)} \ {NoKey}
  IN  keys(m.order.meta)
        \cup UNION {keys(m.columns.string[k]) : k \in DOMAIN m.columns.string}
        \cup UNION {keys(m.columns.number[k]) : k \in DOMAIN m.columns.number}

\* C38: in every reachable state, after failed and retried flushes too, every
\* chunk key the snapshot stored at metaKey refers to is present in the store,
\* and store.set(metaKey, ...) has been invoked only in a Table.flush whose
\* column flushes have all resolved
C38_StoredMetaIntegrity ==
  /\ metaStore # NoMeta => SnapshotKeys(metaStore) \subseteq DOMAIN store
  /\ tflush.setInvoked => (~tflush.failed /\ tflush.pending = {})

\* C38 happens: a flush that did not store a snapshot was retried, and the retry
\* stored one that refers to chunks, while the store also holds blobs the
\* snapshot does not refer to
C38_Witness ==
  /\ tflush.n >= 2 /\ tflush.prevStored = NoMeta
  /\ tflush.setInvoked /\ tflush.result = "resolved"
  /\ metaStore # NoMeta
  /\ SnapshotKeys(metaStore) # {}
  /\ DOMAIN store \ SnapshotKeys(metaStore) # {}

====
